---- MODULE Spec2Model ----
(***************************************************************************)
(* A model of the lychee browser client's session synchronisation engine:  *)
(* the SessionsService of frontend/src/lib/sessions.ts (store, connection  *)
(* manager, directory, pending-write reconciler, stream flags) together    *)
(* with the claude_stream assembler of the service's streaming variant.    *)
(*                                                                         *)
(* Every callback of the single-threaded event loop (a user call, a socket *)
(* event, a timer) is one action that runs the whole handler.              *)
(***************************************************************************)
EXTENDS Integers, Sequences, FiniteSets, TLC

\* ------------------------------------------------------------------ bounds

\* Longest timeline the model lets a handler build.
MaxMsgs == 2
\* Longest new_entries / messages list of one inbound frame.
MaxBatch == 2
\* Sockets that may be alive (created, close event not yet delivered) at once.
MaxSockets == 3
\* Timer handles the model can tell apart.
MaxTimers == 2

\* ------------------------------------------------------------- value sets

Null == "null"

RepoPaths == {"/r1", "/r2"}
RepoNames == {"app", "lib"}
SessionIds == {"s1", "s2"}
Models == {"claude-sonnet-4-5-20250929"}

SocketIds == 1..MaxSockets
NoSocket == 0
TimerIds == 1..MaxTimers
NoTimer == 0

\* Text is a sequence of one-character strings; " " is the whitespace character.
Space == " "
TextA == <<"a">>
TextB == <<"b">>

\* What the user may type into the composer.
RawInputs == {<<Space>>, <<Space, "a", Space>>, TextB}

\* ChatMessage.content is a string or a list of content blocks.
Str(s) == [str |-> s]
Blocks(bs) == [blocks |-> bs]
IsString(c) == DOMAIN c = {"str"}

ToolResultBlock == [type |-> "tool_result"]

\* ------------------------------------------------------------ pure helpers

RECURSIVE TrimStart(_)
\* String.prototype.trim, leading half.
TrimStart(s) ==
    IF s # << >> /\ Head(s) = Space THEN TrimStart(Tail(s)) ELSE s

RECURSIVE TrimEnd(_)
\* String.prototype.trim, trailing half.
TrimEnd(s) ==
    IF s # << >> /\ s[Len(s)] = Space THEN TrimEnd(SubSeq(s, 1, Len(s) - 1)) ELSE s

\* content.trim()
Trim(s) == TrimEnd(TrimStart(s))

\* Characters of a word, used to spell block types in JSON text.
Chars(w) ==
    CASE w = "tool_result" -> <<"t", "o", "o", "l", "_", "r", "e", "s", "u", "l", "t">>
      [] w = "text" -> <<"t", "e", "x", "t">>
      [] w = "tool_use" -> <<"t", "o", "o", "l", "_", "u", "s", "e">>
      [] OTHER -> <<"?">>

RECURSIVE JsonBlocks(_)
JsonBlocks(bs) ==
    IF bs = << >> THEN << >>
    ELSE <<"{">> \o Chars(Head(bs).type) \o <<"}">> \o JsonBlocks(Tail(bs))

\* JSON.stringify of a block list: bracketed text, never equal to a text
\* that holds no bracket.
JsonStringify(bs) == <<"[">> \o JsonBlocks(bs) \o <<"]">>

\* uuid?.startsWith("temp-"): the optimistic ids are temp-<time>-<random>
\* (written "temp-local" here) and temp-pending-<session id>.
TempPendingUuid(sid) == "temp-pending-" \o sid
TempLocalUuid == "temp-local"
StartsWithTemp(uuid) ==
    uuid = TempLocalUuid \/ uuid \in {TempPendingUuid(sid) : sid \in SessionIds}

SeqSet(s) == {s[i] : i \in 1..Len(s)}

\* Sequences over S of length lo..hi.
SeqsOf(S, lo, hi) == UNION {[1..n -> S] : n \in lo..hi}

Min(S) == CHOOSE x \in S : \A y \in S : x <= y

\* A string-keyed store (localStorage, a Record): a function on its keys.
NoItems == [k \in {} |-> << >>]
HasItem(store, key) == key \in DOMAIN store
SetItem(store, key, value) ==
    [k \in DOMAIN store \cup {key} |-> IF k = key THEN value ELSE store[k]]
RemoveItem(store, key) == [k \in DOMAIN store \ {key} |-> store[k]]

\* ------------------------------------------------------------------ state

VARIABLES
    state,            \* SessionsService.state, the Store snapshot
    ws,               \* SessionsService.ws: a socket id, or NoSocket for null
    sockets,          \* readyState of every socket; FREE = not created, or dead
    timers,           \* reconnect timers that are pending in the event loop
    reconnectTimeout, \* SessionsService.reconnectTimeout, the last timer handle
    localStorage,     \* pending-message-<session id> -> text, by session id
    wire,             \* commands ws.send transmitted during the last callback
    dropped,          \* commands sendMessage dropped during the last callback
    statusLog,        \* connectionStatus changes listeners saw in that callback
    notified,         \* snapshots each listener read when called in that callback
    ctorThrows,       \* whether `new WebSocket(wsUrl)` throws for this page
    streamBuffers,    \* streaming variant: SessionsService.streamBuffers
    lastSignal,       \* history: the last stream start/end signal per session
    processedMessages \* chat page: the memoized processMessages(messages)

vars ==
    <<state, ws, sockets, timers, reconnectTimeout, localStorage, wire, dropped,
      statusLog, notified, ctorThrows, streamBuffers, lastSignal,
      processedMessages>>

INITIAL_STATE ==
    [repos |-> << >>,
     activeRepoPath |-> Null,
     currentSessionId |-> Null,
     creatingSessionForRepo |-> Null,
     isCreatingSession |-> FALSE,
     messages |-> << >>,
     activeStreams |-> {},
     connectionStatus |-> "idle",
     selectedModel |-> "claude-sonnet-4-5-20250929"]

\* The listeners registered through subscribe: the hooks of the app shell and
\* of the chat page. A listener reads getSnapshot() when it is called.
Listeners == {"shell", "page"}
NoneNotified == [l \in Listeners |-> << >>]

\* The service's own fields, bundled so that the calls of one handler compose.
Cur ==
    [state |-> state, ws |-> ws, sockets |-> sockets, timers |-> timers,
     reconnectTimeout |-> reconnectTimeout, localStorage |-> localStorage,
     wire |-> << >>, dropped |-> << >>, statusLog |-> << >>,
     notified |-> NoneNotified]

\* The handler returns: its result becomes the next state.
Commit(r) ==
    /\ state' = r.state
    /\ ws' = r.ws
    /\ sockets' = r.sockets
    /\ timers' = r.timers
    /\ reconnectTimeout' = r.reconnectTimeout
    /\ localStorage' = r.localStorage
    /\ wire' = r.wire
    /\ dropped' = r.dropped
    /\ statusLog' = r.statusLog
    /\ notified' = r.notified
    /\ UNCHANGED ctorThrows

\* Faulty variant: the listeners run before the new state is assigned.
UpdateStateNotifiesFirst(r, next) ==
    [r EXCEPT !.state = next,
              !.statusLog = IF next.connectionStatus # r.state.connectionStatus
                            THEN Append(@, next.connectionStatus)
                            ELSE @,
              !.notified = IF next # r.state
                           THEN [l \in Listeners |-> Append(@[l], r.state)]
                           ELSE @]

\* updateState(updater): the store is replaced by the updater's result and
\* then every listener runs and reads the store; an updater that returns prev
\* ends the call before both. A changed connectionStatus is logged apart.
UpdateState(r, next) ==
    [r EXCEPT !.state = next,
              !.statusLog = IF next.connectionStatus # r.state.connectionStatus
                            THEN Append(@, next.connectionStatus)
                            ELSE @,
              !.notified = IF next # r.state
                           THEN [l \in Listeners |-> Append(@[l], next)]
                           ELSE @]

\* ----------------------------------------------------- connection manager

\* WebSocket.close(): an open or connecting socket starts closing; its close
\* event is delivered by a later task.
CloseSocket(socks, s) ==
    IF s # NoSocket /\ socks[s] \in {"CONNECTING", "OPEN"}
    THEN [socks EXCEPT ![s] = "CLOSING"]
    ELSE socks

\* window.setTimeout: a handle that no pending timer uses.
NewTimer(pending) ==
    IF TimerIds \ pending = {} THEN Min(TimerIds) ELSE Min(TimerIds \ pending)

\* Faulty variant: the pending reconnect timer is left running.
ClearReconnectTimerKeeps(r) == r.timers

\* window.clearTimeout(this.reconnectTimeout)
ClearReconnectTimer(r) == r.timers \ {r.reconnectTimeout}

HandleDisconnect(r, status) ==
    LET r1 == UpdateState([r EXCEPT !.sockets = CloseSocket(r.sockets, r.ws),
                                    !.ws = NoSocket],
                          [INITIAL_STATE EXCEPT !.connectionStatus = status])
        cleared == ClearReconnectTimer(r1)
        t == NewTimer(cleared)
    IN [r1 EXCEPT !.timers = cleared \cup {t},
                  !.reconnectTimeout = t]

FreeSockets(r) == {s \in SocketIds : r.sockets[s] = "FREE"}

SocketUsable(r) ==
    r.ws # NoSocket /\ r.sockets[r.ws] \in {"OPEN", "CONNECTING"}

\* Faulty variant: connect() without its first test.
ConnectAlways(r, throws) ==
    LET r1 == UpdateState(r, [r.state EXCEPT !.connectionStatus = "connecting"])
    IN IF throws THEN HandleDisconnect(r1, "error")
       ELSE LET s == Min(FreeSockets(r1))
            IN [r1 EXCEPT !.ws = s, !.sockets[s] = "CONNECTING"]

\* connect() with `throws` telling whether the WebSocket constructor throws.
Connect(r, throws) ==
    IF SocketUsable(r) THEN r
    ELSE
        LET r1 == UpdateState(r, [r.state EXCEPT !.connectionStatus = "connecting"])
        IN IF throws THEN HandleDisconnect(r1, "error")
           ELSE LET s == Min(FreeSockets(r1))
                IN [r1 EXCEPT !.ws = s, !.sockets[s] = "CONNECTING"]

\* The model can run connect() only while a socket slot is left for it.
ConnectFits(r, throws) == SocketUsable(r) \/ throws \/ FreeSockets(r) # {}

SocketOpenNow(r) == r.ws # NoSocket /\ r.sockets[r.ws] = "OPEN"

\* Faulty variant: the status is set to connecting before the socket is
\* tested.
SendMessageAnnouncesFirst(r, message, throws) ==
    LET r1 == UpdateState(r, [r.state EXCEPT !.connectionStatus = "connecting"])
    IN IF ~SocketOpenNow(r1)
       THEN Connect([r1 EXCEPT !.dropped = Append(@, message)], throws)
       ELSE [r1 EXCEPT !.wire = Append(@, [sock |-> r1.ws, msg |-> message])]

\* Faulty variant: the command is handed to the socket whatever its readyState.
SendMessageAnyState(r, message, throws) ==
    [r EXCEPT !.wire = Append(@, [sock |-> r.ws, msg |-> message])]

SendMessage(r, message, throws) ==
    IF ~SocketOpenNow(r)
    THEN Connect([r EXCEPT !.dropped = Append(@, message)], throws)
    ELSE [r EXCEPT !.wire = Append(@, [sock |-> r.ws, msg |-> message])]

\* --------------------------------------------------------------- commands

Cmd(type, repoPath, lycheeId, content, model) ==
    [type |-> type, repo_path |-> repoPath, lychee_id |-> lycheeId,
     content |-> content, model |-> model]

\* A command without a content field carries the empty text here.
NoText == << >>

RegisterBrowser == Cmd("register_browser", Null, Null, NoText, Null)
ListSessions(p) == Cmd("list_sessions", p, Null, NoText, Null)
CreateSessionCmd(p) == Cmd("create_session", p, Null, NoText, Null)
LoadSession(p, sid) == Cmd("load_session", p, sid, NoText, Null)
SendMessageCmd(p, sid, text, model) == Cmd("send_message", p, sid, text, model)

\* ----------------------------------------------------------- user actions

HasRepo(st, p) == \E i \in 1..Len(st.repos) : st.repos[i].path = p

HasSession(st, p, sid) ==
    \E i \in 1..Len(st.repos) :
        /\ st.repos[i].path = p
        /\ \E j \in 1..Len(st.repos[i].sessions) :
               st.repos[i].sessions[j].lychee_id = sid

\* selectSession(repoPath, lycheeId)
SelectSessionCall(r, p, sid, throws) ==
    SendMessage(
        UpdateState(r, [r.state EXCEPT !.activeRepoPath = p,
                                       !.currentSessionId = sid,
                                       !.messages = << >>,
                                       !.isCreatingSession = FALSE,
                                       !.creatingSessionForRepo = Null]),
        LoadSession(p, sid), throws)

\* createSession(repoPath)
CreateSessionCall(r, p, throws) ==
    SendMessage(
        UpdateState(r, [r.state EXCEPT !.creatingSessionForRepo = p,
                                       !.isCreatingSession = TRUE]),
        CreateSessionCmd(p), throws)

\* refreshSessions(repoPath)
RefreshSessionsCall(r, p, throws) == SendMessage(r, ListSessions(p), throws)

\* The models the composer offers.
OfferedModels == {"claude-sonnet-4-5-20250929", "claude-sonnet-4-20250514"}

\* setModel(model)
SetModelCall(r, model) == UpdateState(r, [r.state EXCEPT !.selectedModel = model])

IsTempUser(m) == m.role = "user" /\ StartsWithTemp(m.uuid)

\* Faulty variant: the guard forgets the ActiveStreamSet.
SendGuardIgnoresStreams(st) ==
    /\ st.activeRepoPath # Null
    /\ st.currentSessionId # Null

\* The guard of sendChatMessage: a selected repo, a selected session, and the
\* session is not streaming.
SendGuard(st) ==
    /\ st.activeRepoPath # Null
    /\ st.currentSessionId # Null
    /\ st.currentSessionId \notin st.activeStreams

\* What sendChatMessage stores under pending-message-<currentSessionId>.
PendingValue(raw, trimmed) == trimmed

\* sendChatMessage(content)
SendChatMessageCall(r, raw, throws) ==
    LET trimmed == Trim(raw)
        st == r.state
    IN IF trimmed = << >> THEN r
       ELSE IF ~SendGuard(st) THEN r
       ELSE
         LET userMessage == [role |-> "user", content |-> Str(trimmed),
                             uuid |-> TempLocalUuid]
             r1 == [r EXCEPT !.localStorage =
                                 SetItem(@, st.currentSessionId,
                                         PendingValue(raw, trimmed))]
             r2 == UpdateState(r1, [st EXCEPT !.messages = Append(@, userMessage)])
         IN SendMessage(r2,
                SendMessageCmd(st.activeRepoPath, st.currentSessionId, trimmed,
                               st.selectedModel),
                throws)

\* ------------------------------------------------------- inbound handlers

\* localeCompare on the repo names of the model: their order in this list.
NameOrder == <<"app", "lib">>
NameRank(n) == CHOOSE i \in 1..Len(NameOrder) : NameOrder[i] = n
NameCompare(a, b) == NameRank(a.name) - NameRank(b.name)

\* (b, a) => time(b.last_active) - time(a.last_active), as the comparator of
\* sort(a, b): negative when a is to come first.
LastActiveCompare(a, b) == b.last_active - a.last_active

RECURSIVE InsertRepo(_, _)
\* x placed after every repo that does not compare greater than it.
InsertRepo(sorted, x) ==
    IF sorted = << >> THEN <<x>>
    ELSE IF NameCompare(Head(sorted), x) > 0 THEN <<x>> \o sorted
    ELSE <<Head(sorted)>> \o InsertRepo(Tail(sorted), x)

\* Faulty variant: the list is left in the order of arrival.
SortReposKeepsOrder(seq) == seq

RECURSIVE SortRepos(_)
\* repos.sort((a, b) => a.name.localeCompare(b.name)); the sort is stable.
SortRepos(seq) ==
    IF seq = << >> THEN << >>
    ELSE InsertRepo(SortRepos(SubSeq(seq, 1, Len(seq) - 1)), seq[Len(seq)])

RECURSIVE InsertSession(_, _)
InsertSession(sorted, x) ==
    IF sorted = << >> THEN <<x>>
    ELSE IF LastActiveCompare(Head(sorted), x) > 0 THEN <<x>> \o sorted
    ELSE <<Head(sorted)>> \o InsertSession(Tail(sorted), x)

\* Faulty variant: the list is shown in the order the relay sent it.
SortSessionsKeepsOrder(seq) == seq

RECURSIVE SortSessions(_)
\* sessions.slice().sort(by last_active, descending); the sort is stable.
SortSessions(seq) ==
    IF seq = << >> THEN << >>
    ELSE InsertSession(SortSessions(SubSeq(seq, 1, Len(seq) - 1)), seq[Len(seq)])

WithStreamingFlag(session, activeStreams) ==
    [lychee_id |-> session.lychee_id,
     last_active |-> session.last_active,
     isStreaming |-> session.lychee_id \in activeStreams]

\* Faulty variant: the sessions that do not stream are dropped from the lists.
UpdateStreamingFlagsDropsIdle(repos, activeStreams) ==
    [i \in 1..Len(repos) |->
        [repos[i] EXCEPT !.sessions =
            SelectSeq(@, LAMBDA session : session.lychee_id \in activeStreams)]]

\* updateStreamingFlags(repos, activeStreams)
UpdateStreamingFlags(repos, activeStreams) ==
    [i \in 1..Len(repos) |->
        [repos[i] EXCEPT !.sessions =
            [j \in 1..Len(repos[i].sessions) |->
                WithStreamingFlag(repos[i].sessions[j], activeStreams)]]]

\* Faulty variant: the repo is appended whether or not its path is known.
OnClientConnectedAppends(r, p, name, throws) ==
    LET st == r.state
        next == [st EXCEPT !.repos =
                    SortRepos(Append(st.repos,
                                     [name |-> name, path |-> p,
                                      sessions |-> << >>]))]
    IN SendMessage(UpdateState(r, next), ListSessions(p), throws)

\* case "client_connected"
OnClientConnected(r, p, name, throws) ==
    LET st == r.state
        next == IF HasRepo(st, p) THEN st
                ELSE [st EXCEPT !.repos =
                        SortRepos(Append(st.repos,
                                         [name |-> name, path |-> p,
                                          sessions |-> << >>]))]
    IN SendMessage(UpdateState(r, next), ListSessions(p), throws)

\* Faulty variant: the selection is cleared whichever repo goes away.
OnClientDisconnectedClearsAlways(r, p) ==
    LET st == r.state
    IN UpdateState(r,
        [st EXCEPT !.repos = SelectSeq(st.repos, LAMBDA repo : repo.path # p),
                   !.activeRepoPath = Null,
                   !.currentSessionId = Null,
                   !.messages = << >>])

\* case "client_disconnected"
OnClientDisconnected(r, p) ==
    LET st == r.state
        wasActive == st.activeRepoPath = p
    IN UpdateState(r,
        [st EXCEPT !.repos = SelectSeq(st.repos, LAMBDA repo : repo.path # p),
                   !.activeRepoPath = IF wasActive THEN Null ELSE @,
                   !.currentSessionId = IF wasActive THEN Null ELSE @,
                   !.messages = IF wasActive THEN << >> ELSE @])

\* The repos whose isStreaming flags a sessions_list recomputes.
ListedRepo(repo, p) == repo.path = p

\* Faulty variant: the listed active ids replace the ActiveStreamSet.
OnSessionsListReplacesActive(r, p, sessions, activeSessionIds) ==
    LET st == r.state
        activeStreams == SeqSet(activeSessionIds)
        sorted == SortSessions(sessions)
        listed == [j \in 1..Len(sorted) |-> WithStreamingFlag(sorted[j], activeStreams)]
    IN UpdateState(r,
        [st EXCEPT !.activeStreams = activeStreams,
                   !.repos = [i \in 1..Len(st.repos) |->
                                IF ListedRepo(st.repos[i], p)
                                THEN [st.repos[i] EXCEPT !.sessions = listed]
                                ELSE st.repos[i]]])

\* Faulty variant: the listed sessions are added to those the repo holds.
OnSessionsListAppends(r, p, sessions, activeSessionIds) ==
    LET st == r.state
        activeStreams == st.activeStreams \cup SeqSet(activeSessionIds)
        sorted == SortSessions(sessions)
        listed == [j \in 1..Len(sorted) |-> WithStreamingFlag(sorted[j], activeStreams)]
    IN UpdateState(r,
        [st EXCEPT !.activeStreams = activeStreams,
                   !.repos = [i \in 1..Len(st.repos) |->
                                IF ListedRepo(st.repos[i], p)
                                THEN [st.repos[i] EXCEPT !.sessions = @ \o listed]
                                ELSE st.repos[i]]])

\* case "sessions_list"
OnSessionsList(r, p, sessions, activeSessionIds) ==
    LET st == r.state
        activeStreams == st.activeStreams \cup SeqSet(activeSessionIds)
        sorted == SortSessions(sessions)
        listed == [j \in 1..Len(sorted) |-> WithStreamingFlag(sorted[j], activeStreams)]
    IN UpdateState(r,
        [st EXCEPT !.activeStreams = activeStreams,
                   !.repos = [i \in 1..Len(st.repos) |->
                                IF ListedRepo(st.repos[i], p)
                                THEN [st.repos[i] EXCEPT !.sessions = listed]
                                ELSE st.repos[i]]])

\* case "session_created"
OnSessionCreated(r, p, sid, throws) ==
    LET r1 == UpdateState(r, [r.state EXCEPT !.isCreatingSession = FALSE,
                                             !.creatingSessionForRepo = Null])
        r2 == SendMessage(r1, ListSessions(p), throws)
    IN SelectSessionCall(r2, p, sid, throws)

\* typeof msg.content === "string" ? msg.content : ""
StringOrEmpty(m) == IF IsString(m.content) THEN m.content.str ELSE << >>

\* typeof m.content === "string" ? m.content : JSON.stringify(m.content)
StringOrJson(m) ==
    IF IsString(m.content) THEN m.content.str ELSE JsonStringify(m.content.blocks)

\* Faulty variant: the snapshot is never searched for the pending text.
IsPendingInFileNever(loadedMessages, pendingMessage) == FALSE

\* isPendingInFile of session_history.
IsPendingInFile(loadedMessages, pendingMessage) ==
    \E i \in 1..Len(loadedMessages) :
        /\ loadedMessages[i].role = "user"
        /\ StringOrEmpty(loadedMessages[i]) = pendingMessage

\* case "session_history"
OnSessionHistory(r, sid, loadedMessages) ==
    LET st == r.state
        pendingMessage == r.localStorage[sid]
    IN IF st.currentSessionId # sid THEN r
       ELSE IF ~HasItem(r.localStorage, sid)
       THEN UpdateState(r, [st EXCEPT !.messages = loadedMessages])
       ELSE IF ~IsPendingInFile(loadedMessages, pendingMessage)
       THEN UpdateState(r,
              [st EXCEPT !.messages =
                  Append(loadedMessages,
                         [role |-> "user", content |-> Str(pendingMessage),
                          uuid |-> TempPendingUuid(sid)])])
       ELSE UpdateState([r EXCEPT !.localStorage = RemoveItem(@, sid)],
                        [st EXCEPT !.messages = loadedMessages])

\* hasUserMessage of session_update.
HasUserMessage(newEntries) ==
    \E i \in 1..Len(newEntries) : newEntries[i].role = "user"

\* Faulty variant: the optimistic messages are never filtered out.
WithoutTempDupesKeepsAll(messages, hasUserMessage) == messages

\* Faulty variant: the optimistic messages are dropped by every batch.
WithoutTempDupesDropsAlways(messages, hasUserMessage) ==
    SelectSeq(messages, LAMBDA existing : ~IsTempUser(existing))

\* withoutTempDupes of session_update.
WithoutTempDupes(messages, hasUserMessage) ==
    SelectSeq(messages,
              LAMBDA existing :
                  IF ~StartsWithTemp(existing.uuid) THEN TRUE
                  ELSE IF hasUserMessage /\ existing.role = "user" THEN FALSE
                  ELSE TRUE)

\* Faulty variant: every incoming entry is merged.
FinalEntriesKeepsAll(newEntries, kept) == newEntries

\* finalEntries of session_update.
FinalEntries(newEntries, kept) ==
    LET existingContents ==
            {StringOrJson(kept[i]) :
                i \in {k \in 1..Len(kept) :
                          kept[k].role = "user" /\ ~StartsWithTemp(kept[k].uuid)}}
    IN SelectSeq(newEntries,
                 LAMBDA entry :
                     IF entry.role # "user" THEN TRUE
                     ELSE StringOrJson(entry) \notin existingContents)

\* Whether session_update removes pending-message-<session id>.
ClearsPending(newEntries, storage, sid) == HasUserMessage(newEntries)

\* Faulty variant: the batch is merged whatever session it is for.
OnSessionUpdateAnySession(r, sid, newEntries) ==
    UpdateState(r, [r.state EXCEPT !.messages = @ \o newEntries])

\* case "session_update"
OnSessionUpdate(r, sid, newEntries) ==
    LET st == r.state
        hasUserMessage == HasUserMessage(newEntries)
        withoutTempDupes == WithoutTempDupes(st.messages, hasUserMessage)
        r1 == IF ClearsPending(newEntries, r.localStorage, sid)
              THEN [r EXCEPT !.localStorage = RemoveItem(@, sid)]
              ELSE r
    IN IF st.currentSessionId # sid THEN r
       ELSE UpdateState(r1,
              [st EXCEPT !.messages =
                  withoutTempDupes \o FinalEntries(newEntries, withoutTempDupes)])

\* case "stream_start"
OnStreamStart(r, sid) ==
    LET activeStreams == r.state.activeStreams \cup {sid}
    IN UpdateState(r,
        [r.state EXCEPT !.activeStreams = activeStreams,
                        !.repos = UpdateStreamingFlags(@, activeStreams)])

\* Faulty variant: an end signal leaves the ActiveStreamSet as it is.
OnStreamEndKeeps(r, sid) == r

\* case "stream_end"
OnStreamEnd(r, sid) ==
    LET activeStreams == r.state.activeStreams \ {sid}
    IN UpdateState(r,
        [r.state EXCEPT !.activeStreams = activeStreams,
                        !.repos = UpdateStreamingFlags(@, activeStreams)])

\* case "error"
OnError(r, text) ==
    UpdateState(r,
        [r.state EXCEPT !.messages =
                            Append(@, [role |-> "system", content |-> Str(text),
                                       uuid |-> Null]),
                        !.isCreatingSession = FALSE,
                        !.creatingSessionForRepo = Null])

\* ------------------------------------------- streaming variant: assembler

\* Longest text a stream buffer accumulates in the model.
MaxText == 2

\* Faulty variant: only a leading text block of the delta is read.
DeltaTextHeadOnly(contentBlocks) ==
    IF contentBlocks # << >> /\ Head(contentBlocks).type = "text"
    THEN Head(contentBlocks).text ELSE << >>

\* The text of a delta: its text blocks' texts, joined.
RECURSIVE DeltaText(_)
DeltaText(contentBlocks) ==
    IF contentBlocks = << >> THEN << >>
    ELSE (IF Head(contentBlocks).type = "text" THEN Head(contentBlocks).text ELSE << >>)
         \o DeltaText(Tail(contentBlocks))

\* (this.streamBuffers[lycheeId] || "")
BufferOrEmpty(buffers, sid) == IF HasItem(buffers, sid) THEN buffers[sid] ELSE << >>

\* Faulty variant: the delta is written to the timeline whatever session is
\* selected.
ApplyAssistantDeltaAnySession(st, sid, accumulated) ==
    LET n == Len(st.messages)
    IN IF n > 0 /\ st.messages[n].role = "assistant"
       THEN [st EXCEPT !.messages[n].content = Str(accumulated)]
       ELSE [st EXCEPT !.messages =
                Append(@, [role |-> "assistant", content |-> Str(accumulated),
                           uuid |-> Null])]

\* The assistant branch's store update: the accumulated text replaces the
\* content of a trailing assistant message, or is appended as a new one.
ApplyAssistantDelta(st, sid, accumulated) ==
    IF st.currentSessionId # sid THEN st
    ELSE LET n == Len(st.messages)
         IN IF n > 0 /\ st.messages[n].role = "assistant"
            THEN [st EXCEPT !.messages[n].content = Str(accumulated)]
            ELSE [st EXCEPT !.messages =
                     Append(@, [role |-> "assistant", content |-> Str(accumulated),
                                uuid |-> Null])]

\* Faulty variant: the error is reported in the timeline whatever session is
\* selected.
ApplyStreamEndAlwaysReports(st, sid, streamType, errorMessage) ==
    LET activeStreams == st.activeStreams \ {sid}
        ended == [st EXCEPT !.activeStreams = activeStreams,
                            !.repos = UpdateStreamingFlags(@, activeStreams)]
    IN IF streamType = "error" /\ errorMessage # << >>
       THEN [ended EXCEPT !.messages =
                Append(@, [role |-> "system",
                           content |-> Str(<<"E", ":">> \o errorMessage),
                           uuid |-> Null])]
       ELSE ended

\* handleClaudeStream, result / error branch, on the store.
ApplyStreamEnd(st, sid, streamType, errorMessage) ==
    LET activeStreams == st.activeStreams \ {sid}
        ended == [st EXCEPT !.activeStreams = activeStreams,
                            !.repos = UpdateStreamingFlags(@, activeStreams)]
    IN IF streamType = "error" /\ errorMessage # << >> /\ ended.currentSessionId = sid
       THEN [ended EXCEPT !.messages =
                Append(@, [role |-> "system",
                           content |-> Str(<<"E", ":">> \o errorMessage),
                           uuid |-> Null])]
       ELSE ended

\* ---------------------------------- block assembler (design section 4.5)
\* The assembler that keeps tool blocks and writes textLengthAtTools is not
\* among the sources; the segmenter reads its output.  It is modelled from the
\* design: one running text block, tool blocks appended unless their id is
\* present, other blocks appended verbatim, and the text length snapshot taken
\* when the first tool block appears.

IsToolUse(block) == block.type = "tool_use"

\* The concatenated text of a message's text blocks.
RunningText(content) == DeltaText(content.blocks)

\* The blocks of a message that are not text blocks, in order.
NonTextBlocks(content) == SelectSeq(content.blocks, LAMBDA b : b.type # "text")

RECURSIVE AppendBlocks(_, _)
\* Blocks of a delta appended one by one: text blocks go to the running text,
\* a tool block whose id is present is suppressed.
AppendBlocks(kept, contentBlocks) ==
    IF contentBlocks = << >> THEN kept
    ELSE LET b == Head(contentBlocks)
             dup == /\ IsToolUse(b)
                    /\ \E i \in 1..Len(kept) : IsToolUse(kept[i]) /\ kept[i].id = b.id
         IN AppendBlocks(IF b.type = "text" \/ dup THEN kept ELSE Append(kept, b),
                         Tail(contentBlocks))

\* An empty assistant message for a stream to fill.
NewStreamMessage ==
    [role |-> "assistant", content |-> Blocks(<< >>), uuid |-> Null,
     textLengthAtTools |-> 0]

\* A message merged with one delta.
MergeDelta(msg, contentBlocks) ==
    LET before == RunningText(msg.content)
        text == before \o DeltaText(contentBlocks)
        others == AppendBlocks(NonTextBlocks(msg.content), contentBlocks)
        hadTools == \E i \in 1..Len(msg.content.blocks) : IsToolUse(msg.content.blocks[i])
        bringsTools == \E i \in 1..Len(contentBlocks) : IsToolUse(contentBlocks[i])
    IN [msg EXCEPT
          !.content = Blocks((IF text = << >> THEN << >>
                              ELSE <<[type |-> "text", text |-> text]>>) \o others),
          !.textLengthAtTools = IF ~hadTools /\ bringsTools THEN Len(before) ELSE @]

\* A message the assembler can merge into: an assistant message built of blocks.
Mergeable(msg) ==
    /\ msg.role = "assistant"
    /\ ~IsString(msg.content)
    /\ "textLengthAtTools" \in DOMAIN msg

\* The store update of an assistant delta.
ApplyBlockDelta(st, sid, contentBlocks) ==
    IF st.currentSessionId # sid THEN st
    ELSE LET n == Len(st.messages)
         IN IF n > 0 /\ Mergeable(st.messages[n])
            THEN [st EXCEPT !.messages[n] = MergeDelta(@, contentBlocks)]
            ELSE [st EXCEPT !.messages =
                     Append(@, MergeDelta(NewStreamMessage, contentBlocks))]

\* ------------------------------------------- chat page: timeline segmenter

\* msg.isSidechain, an optional field of ChatMessage
IsSidechain(msg) == "isSidechain" \in DOMAIN msg /\ msg.isSidechain

\* (singleMsg.textLengthAtTools || 0)
TextLengthAtTools(msg) ==
    IF "textLengthAtTools" \in DOMAIN msg THEN msg.textLengthAtTools ELSE 0

\* getTextFromContent: a string as it is, the joined text blocks of a list
GetTextFromContent(content) ==
    IF IsString(content) THEN content.str ELSE DeltaText(content.blocks)

\* getToolsFromContent: the tool_use blocks of a list, in order
GetToolsFromContent(content) ==
    IF IsString(content) THEN << >> ELSE SelectSeq(content.blocks, IsToolUse)

\* Faulty variant: one tool_result block is enough.
IsToolResultMessageSome(msg) ==
    /\ msg.role = "user"
    /\ ~IsString(msg.content)
    /\ \E i \in 1..Len(msg.content.blocks) :
           msg.content.blocks[i].type = "tool_result"

\* isToolResultMessage: a user message whose blocks are all tool_result
IsToolResultMessage(msg) ==
    /\ msg.role = "user"
    /\ ~IsString(msg.content)
    /\ Len(msg.content.blocks) > 0
    /\ \A i \in 1..Len(msg.content.blocks) :
           msg.content.blocks[i].type = "tool_result"

\* A ProcessedMessage of type user, system or assistant-text.
MessageItem(id, type, content, msg) ==
    [id |-> id, type |-> type, content |-> content, originalMessage |-> msg]

\* A ProcessedMessage of type worklog; it carries no originalMessage.
WorklogMessage(id, worklog) ==
    [id |-> id, type |-> "worklog", content |-> << >>, worklogItems |-> worklog]

\* (text || null) as a WorklogItem's precedingContext
NoContext == [none |-> TRUE]
ContextOf(text) == IF text = << >> THEN NoContext ELSE [text |-> text]

\* Faulty variant: the tools of a message are pushed last first.
ToolEntriesReversed(msg, context) ==
    LET msgTools == GetToolsFromContent(msg.content)
    IN [k \in 1..Len(msgTools) |->
           [tool |-> msgTools[Len(msgTools) + 1 - k], precedingContext |-> context,
            originalMessage |-> msg]]

\* msgTools.forEach(tool => worklog.push({tool, precedingContext, originalMessage}))
ToolEntries(msg, context) ==
    LET msgTools == GetToolsFromContent(msg.content)
    IN [k \in 1..Len(msgTools) |->
           [tool |-> msgTools[k], precedingContext |-> context,
            originalMessage |-> msg]]

RECURSIVE CollectWorklog(_, _, _, _)
\* The loop of processExchange from message j on (j counts from 1 here).
CollectWorklog(msgs, j, firstText, context) ==
    IF j > Len(msgs) THEN << >>
    ELSE LET msgText == GetTextFromContent(msgs[j].content)
             ctx == IF j > 1 /\ Trim(msgText) # << >> THEN ContextOf(msgText)
                    ELSE context
             skipFirstMessageTools == j = 1 /\ Trim(firstText) # << >>
         IN (IF skipFirstMessageTools THEN << >> ELSE ToolEntries(msgs[j], ctx))
            \o CollectWorklog(msgs, j + 1, firstText, ctx)

\* processExchange(msgs, exchangeId): initial text, worklog, final text
ProcessExchange(msgs, exchangeId) ==
    LET firstText == GetTextFromContent(msgs[1].content)
        lastText == IF Len(msgs) > 1 THEN GetTextFromContent(msgs[Len(msgs)].content)
                    ELSE << >>
        worklog == CollectWorklog(msgs, 1, firstText, ContextOf(firstText))
    IN (IF Trim(firstText) # << >>
        THEN <<MessageItem(exchangeId \o <<"initial">>, "assistant-text",
                           firstText, msgs[1])>>
        ELSE << >>)
       \o (IF Len(worklog) > 0
           THEN <<WorklogMessage(exchangeId \o <<"worklog">>, worklog)>>
           ELSE << >>)
       \o (IF Trim(lastText) # << >> /\ lastText # firstText
           THEN <<MessageItem(exchangeId \o <<"final">>, "assistant-text",
                              lastText, msgs[Len(msgs)])>>
           ELSE << >>)

\* messages.filter(m => !m.isSidechain && !isToolResultMessage(m))
CleanMessages(messages) ==
    SelectSeq(messages, LAMBDA m : ~IsSidechain(m) /\ ~IsToolResultMessage(m))

RECURSIVE ExchangeEnd(_, _)
\* The index after the run of assistant messages that starts at i.
ExchangeEnd(clean, i) ==
    IF i <= Len(clean) /\ clean[i].role = "assistant"
    THEN ExchangeEnd(clean, i + 1) ELSE i

RECURSIVE ProcessFrom(_, _, _)
\* The while loop of processMessages from index i on (i counts from 1 here,
\* the ids count from 0 as the code does).
ProcessFrom(clean, i, exchangeNum) ==
    IF i > Len(clean) THEN << >>
    ELSE CASE clean[i].role = "user" ->
                <<MessageItem(<<"user", i - 1>>, "user",
                              GetTextFromContent(clean[i].content), clean[i])>>
                \o ProcessFrom(clean, i + 1, exchangeNum)
           [] clean[i].role = "system" ->
                <<MessageItem(<<"system", i - 1>>, "system",
                              GetTextFromContent(clean[i].content), clean[i])>>
                \o ProcessFrom(clean, i + 1, exchangeNum)
           [] clean[i].role = "assistant" ->
                ProcessExchange(SubSeq(clean, i, ExchangeEnd(clean, i) - 1),
                                <<"exchange", exchangeNum>>)
                \o ProcessFrom(clean, ExchangeEnd(clean, i), exchangeNum + 1)

\* processMessages(messages) of the page that reads every message from disk
ProcessMessages(messages) == ProcessFrom(CleanMessages(messages), 1, 0)

\* -- the page variant that also renders a streamed single message

\* allText.slice(0, splitPoint) and allText.slice(splitPoint)
SliceTo(text, n) == SubSeq(text, 1, IF n < Len(text) THEN n ELSE Len(text))
SliceFrom(text, n) == SubSeq(text, n + 1, Len(text))

\* The branch exchangeMessages.length === 1
SingleMessageExchange(singleMsg, exchangeId) ==
    IF IsString(singleMsg.content)
    THEN (IF Trim(singleMsg.content.str) # << >>
          THEN <<MessageItem(exchangeId \o <<"text">>, "assistant-text",
                             singleMsg.content.str, singleMsg)>>
          ELSE << >>)
    ELSE LET content == singleMsg.content.blocks
             hasTools == \E k \in 1..Len(content) : content[k].type = "tool_use"
             allText == DeltaText(content)
             splitPoint == TextLengthAtTools(singleMsg)
             textBeforeTools ==
                 IF splitPoint > 0 THEN SliceTo(allText, splitPoint) ELSE allText
             textAfterTools ==
                 IF splitPoint > 0 THEN SliceFrom(allText, splitPoint) ELSE << >>
         IN IF ~hasTools
            THEN (IF Trim(allText) # << >>
                  THEN <<MessageItem(exchangeId \o <<"text">>, "assistant-text",
                                     allText, singleMsg)>>
                  ELSE << >>)
            ELSE (IF Trim(textBeforeTools) # << >>
                  THEN <<MessageItem(exchangeId \o <<"initial">>, "assistant-text",
                                     textBeforeTools, singleMsg)>>
                  ELSE << >>)
                 \o <<WorklogMessage(exchangeId \o <<"worklog">>,
                                     ToolEntries(singleMsg, ContextOf(textBeforeTools)))>>
                 \o (IF Trim(textAfterTools) # << >>
                     THEN <<MessageItem(exchangeId \o <<"final">>, "assistant-text",
                                        textAfterTools, singleMsg)>>
                     ELSE << >>)

RECURSIVE BuildWorklog(_, _, _, _)
\* The loop "Build worklog from all messages" from message j on.
BuildWorklog(exchangeMessages, j, firstText, currentContext) ==
    IF j > Len(exchangeMessages) THEN << >>
    ELSE LET msgText == GetTextFromContent(exchangeMessages[j].content)
             ctx == IF j > 1 /\ Trim(msgText) # << >> THEN ContextOf(msgText)
                    ELSE currentContext
         IN (IF j > 1 \/ Trim(firstText) = << >>
             THEN ToolEntries(exchangeMessages[j], ctx) ELSE << >>)
            \o BuildWorklog(exchangeMessages, j + 1, firstText, ctx)

\* The branch for several messages of one exchange
MultiMessageExchange(exchangeMessages, exchangeId) ==
    LET firstMsg == exchangeMessages[1]
        lastMsg == exchangeMessages[Len(exchangeMessages)]
        firstText == GetTextFromContent(firstMsg.content)
        lastText == GetTextFromContent(lastMsg.content)
        worklogItems ==
            BuildWorklog(exchangeMessages, 1, firstText, ContextOf(firstText))
        hasFinalText ==
            /\ Trim(lastText) # << >>
            /\ Len(exchangeMessages) > 1
            /\ lastText # firstText
    IN (IF Trim(firstText) # << >>
        THEN <<MessageItem(exchangeId \o <<"initial">>, "assistant-text",
                           firstText, firstMsg)>>
        ELSE << >>)
       \o (IF Len(worklogItems) > 0
           THEN <<WorklogMessage(exchangeId \o <<"worklog">>, worklogItems)>>
           ELSE << >>)
       \o (IF hasFinalText
           THEN <<MessageItem(exchangeId \o <<"final">>, "assistant-text",
                              lastText, lastMsg)>>
           ELSE << >>)

RECURSIVE ProcessStreamedFrom(_, _, _)
\* The while loop of this variant's processMessages.
ProcessStreamedFrom(mainMessages, i, exchangeCounter) ==
    IF i > Len(mainMessages) THEN << >>
    ELSE CASE mainMessages[i].role = "user" ->
                <<MessageItem(<<"user", i - 1>>, "user",
                              GetTextFromContent(mainMessages[i].content),
                              mainMessages[i])>>
                \o ProcessStreamedFrom(mainMessages, i + 1, exchangeCounter)
           [] mainMessages[i].role = "assistant" ->
                LET next == ExchangeEnd(mainMessages, i)
                    exchangeMessages == SubSeq(mainMessages, i, next - 1)
                    exchangeId == <<"exchange", exchangeCounter>>
                IN (IF Len(exchangeMessages) = 1
                    THEN SingleMessageExchange(exchangeMessages[1], exchangeId)
                    ELSE MultiMessageExchange(exchangeMessages, exchangeId))
                   \o ProcessStreamedFrom(mainMessages, next, exchangeCounter + 1)
           [] mainMessages[i].role = "system" ->
                <<MessageItem(<<"system", i - 1>>, "system",
                              GetTextFromContent(mainMessages[i].content),
                              mainMessages[i])>>
                \o ProcessStreamedFrom(mainMessages, i + 1, exchangeCounter)
           [] OTHER -> ProcessStreamedFrom(mainMessages, i + 1, exchangeCounter)

ProcessMessagesStreamed(messages) ==
    ProcessStreamedFrom(CleanMessages(messages), 1, 0)

\* The two variants of the chat page and what each renders for a timeline.
PageVariants == {"disk", "streamed"}
RenderAll(messages) ==
    [page \in PageVariants |->
        IF page = "disk" THEN ProcessMessages(messages)
        ELSE ProcessMessagesStreamed(messages)]

\* ---------------------------------------------------------------- actions

StoreBounded(r) == Len(r.state.messages) <= MaxMsgs

\* A handler that may call connect() runs only while the model has a socket
\* slot for it.
Slot == ConnectFits(Cur, ctorThrows)

\* Only an open socket delivers message events.
Receiving == SocketOpenNow(Cur)

Finish(r) ==
    /\ StoreBounded(r)
    /\ Commit(r)

\* -- socket and timer events

\* Faulty variant: the open event publishes the status and registers nothing.
SocketOpenSilent(s) ==
    /\ sockets[s] = "CONNECTING"
    /\ LET r0 == [Cur EXCEPT !.sockets[s] = "OPEN"]
       IN Finish(UpdateState(r0, [r0.state EXCEPT !.connectionStatus = "open"]))
    /\ UNCHANGED <<streamBuffers, lastSignal, processedMessages>>

\* ws.onopen of socket s
SocketOpen(s) ==
    /\ sockets[s] = "CONNECTING"
    /\ LET r0 == [Cur EXCEPT !.sockets[s] = "OPEN"]
           r1 == UpdateState(r0, [r0.state EXCEPT !.connectionStatus = "open"])
       IN Finish(SendMessage(r1, RegisterBrowser, ctorThrows))
    /\ UNCHANGED <<streamBuffers, lastSignal, processedMessages>>

\* The peer starts the closing handshake: readyState becomes CLOSING.
SocketBeginClose(s) ==
    /\ sockets[s] = "OPEN"
    /\ Finish([Cur EXCEPT !.sockets[s] = "CLOSING"])
    /\ UNCHANGED <<streamBuffers, lastSignal, processedMessages>>

\* ws.onerror of socket s: the connection has failed, the socket is closed and
\* its close event follows.
SocketError(s) ==
    /\ sockets[s] \in {"CONNECTING", "OPEN", "CLOSING"}
    /\ LET r0 == [Cur EXCEPT !.sockets[s] = "CLOSED"]
       IN Finish(UpdateState(r0, [r0.state EXCEPT !.connectionStatus = "error"]))
    /\ UNCHANGED <<streamBuffers, lastSignal, processedMessages>>

\* ws.onclose of socket s
SocketClose(s) ==
    /\ sockets[s] \in {"CONNECTING", "OPEN", "CLOSING", "CLOSED"}
    /\ Finish(HandleDisconnect([Cur EXCEPT !.sockets[s] = "FREE"], "closed"))
    /\ UNCHANGED <<streamBuffers, lastSignal, processedMessages>>

\* The reconnect timer t fires: () => this.connect()
TimerFire(t) ==
    /\ t \in timers
    /\ Slot
    /\ Finish(Connect([Cur EXCEPT !.timers = @ \ {t}], ctorThrows))
    /\ UNCHANGED <<streamBuffers, lastSignal, processedMessages>>

\* -- user calls

\* The sidebar offers the sessions the directory lists.
SelectSession(p, sid) ==
    /\ HasSession(state, p, sid)
    /\ Slot
    /\ Finish(SelectSessionCall(Cur, p, sid, ctorThrows))
    /\ UNCHANGED <<streamBuffers, lastSignal, processedMessages>>

CreateSession(p) ==
    /\ HasRepo(state, p)
    /\ Slot
    /\ Finish(CreateSessionCall(Cur, p, ctorThrows))
    /\ UNCHANGED <<streamBuffers, lastSignal, processedMessages>>

RefreshSessions(p) ==
    /\ HasRepo(state, p)
    /\ Slot
    /\ Finish(RefreshSessionsCall(Cur, p, ctorThrows))
    /\ UNCHANGED <<streamBuffers, lastSignal, processedMessages>>

SetModel(model) ==
    /\ Finish(SetModelCall(Cur, model))
    /\ UNCHANGED <<streamBuffers, lastSignal, processedMessages>>

SendChatMessage(raw) ==
    /\ Slot
    /\ Finish(SendChatMessageCall(Cur, raw, ctorThrows))
    /\ UNCHANGED <<streamBuffers, lastSignal, processedMessages>>

\* -- inbound frames (ws.onmessage, after JSON.parse)

ClientConnected(p, name) ==
    /\ Receiving
    /\ Finish(OnClientConnected(Cur, p, name, ctorThrows))
    /\ UNCHANGED <<streamBuffers, lastSignal, processedMessages>>

ClientDisconnected(p) ==
    /\ Receiving
    /\ Finish(OnClientDisconnected(Cur, p))
    /\ UNCHANGED <<streamBuffers, lastSignal, processedMessages>>

SessionsList(p, sessions, activeSessionIds) ==
    /\ Receiving
    /\ Finish(OnSessionsList(Cur, p, sessions, activeSessionIds))
    /\ UNCHANGED <<streamBuffers, lastSignal, processedMessages>>

SessionCreated(p, sid) ==
    /\ Receiving
    /\ Finish(OnSessionCreated(Cur, p, sid, ctorThrows))
    /\ UNCHANGED <<streamBuffers, lastSignal, processedMessages>>

SessionHistory(sid, loadedMessages) ==
    /\ Receiving
    /\ Finish(OnSessionHistory(Cur, sid, loadedMessages))
    /\ UNCHANGED <<streamBuffers, lastSignal, processedMessages>>

SessionUpdate(sid, newEntries) ==
    /\ Receiving
    /\ Finish(OnSessionUpdate(Cur, sid, newEntries))
    /\ UNCHANGED <<streamBuffers, lastSignal, processedMessages>>

StreamStart(sid) ==
    /\ Receiving
    /\ Finish(OnStreamStart(Cur, sid))
    /\ lastSignal' = [lastSignal EXCEPT ![sid] = "start"]
    /\ UNCHANGED <<streamBuffers, processedMessages>>

StreamEnd(sid) ==
    /\ Receiving
    /\ Finish(OnStreamEnd(Cur, sid))
    /\ lastSignal' = [lastSignal EXCEPT ![sid] = "end"]
    /\ UNCHANGED <<streamBuffers, processedMessages>>

ErrorEvent(text) ==
    /\ Receiving
    /\ Finish(OnError(Cur, text))
    /\ UNCHANGED <<streamBuffers, lastSignal, processedMessages>>

\* -- inbound frames as text (ws.onmessage as a whole)

\* Frame texts a relay, or a newer relay, may put on the socket.
BrokenFrame == "{\"type\":\"stream_start\""
NullFrame == "null"
NumberFrame == "7"
ClientCountFrame == "{\"type\":\"client_count\",\"count\":2}"
FutureFrame == "{\"type\":\"session_renamed\",\"lychee_id\":\"s1\"}"
StreamStartFrame == "{\"type\":\"stream_start\",\"repo_path\":\"/r1\",\"lychee_id\":\"s1\"}"
ErrorFrame == "{\"type\":\"error\",\"message\":\"b\"}"

FrameTexts ==
    {BrokenFrame, NullFrame, NumberFrame, ClientCountFrame, FutureFrame,
     StreamStartFrame, ErrorFrame}

\* JSON.parse(event.data) on these texts: it throws on the text that breaks
\* off, and yields null, a number or an object otherwise.
JsonParse(data) ==
    CASE data = BrokenFrame -> [threw |-> TRUE]
      [] data = NullFrame -> [threw |-> FALSE, truthy |-> FALSE]
      [] data = NumberFrame -> [threw |-> FALSE, truthy |-> TRUE, type |-> "undefined"]
      [] data = ClientCountFrame ->
           [threw |-> FALSE, truthy |-> TRUE, type |-> "client_count"]
      [] data = FutureFrame ->
           [threw |-> FALSE, truthy |-> TRUE, type |-> "session_renamed",
            lychee_id |-> "s1"]
      [] data = StreamStartFrame ->
           [threw |-> FALSE, truthy |-> TRUE, type |-> "stream_start",
            lychee_id |-> "s1"]
      [] data = ErrorFrame ->
           [threw |-> FALSE, truthy |-> TRUE, type |-> "error", message |-> TextB]

\* Faulty variant: a frame of no known type is reported like a relay error.
HandleInboundMessageStrict(r, message) ==
    CASE message.type = "stream_start" -> OnStreamStart(r, message.lychee_id)
      [] message.type = "error" -> OnError(r, message.message)
      [] OTHER -> OnError(r, TextA)

\* handleInboundMessage(message): the switch, for the frames above
HandleInboundMessage(r, message) ==
    CASE message.type = "stream_start" -> OnStreamStart(r, message.lychee_id)
      [] message.type = "error" -> OnError(r, message.message)
      [] OTHER -> r

\* ws.onmessage: parse inside try/catch, dispatch what is truthy
OnMessage(r, data) ==
    LET parsed == JsonParse(data)
    IN IF parsed.threw THEN r
       ELSE IF ~parsed.truthy THEN r
       ELSE HandleInboundMessage(r, parsed)

Message(data) ==
    /\ Receiving
    /\ Finish(OnMessage(Cur, data))
    /\ lastSignal' = IF data = StreamStartFrame
                     THEN [lastSignal EXCEPT !["s1"] = "start"]
                     ELSE lastSignal
    /\ UNCHANGED <<streamBuffers, processedMessages>>

\* claude_stream with data.type init or system
ClaudeStreamInit(sid) ==
    /\ Receiving
    /\ streamBuffers' = SetItem(streamBuffers, sid, << >>)
    /\ Finish(OnStreamStart(Cur, sid))
    /\ lastSignal' = [lastSignal EXCEPT ![sid] = "start"]
    /\ UNCHANGED processedMessages

\* claude_stream with data.type assistant
ClaudeStreamAssistant(sid, contentBlocks) ==
    /\ Receiving
    /\ LET accumulated == BufferOrEmpty(streamBuffers, sid) \o DeltaText(contentBlocks)
       IN /\ Len(accumulated) <= MaxText
          /\ streamBuffers' = SetItem(streamBuffers, sid, accumulated)
          /\ Finish(UpdateState(Cur, ApplyAssistantDelta(state, sid, accumulated)))
    /\ UNCHANGED <<lastSignal, processedMessages>>

\* claude_stream with data.type assistant, assembled into blocks
ClaudeStreamBlocks(sid, contentBlocks) ==
    /\ Receiving
    /\ LET accumulated == BufferOrEmpty(streamBuffers, sid) \o DeltaText(contentBlocks)
           next == ApplyBlockDelta(state, sid, contentBlocks)
       IN /\ Len(accumulated) <= MaxText
          /\ \A i \in 1..Len(next.messages) :
                 ~IsString(next.messages[i].content)
                 => Len(RunningText(next.messages[i].content)) <= MaxText
          /\ streamBuffers' = SetItem(streamBuffers, sid, accumulated)
          /\ Finish(UpdateState(Cur, next))
    /\ UNCHANGED <<lastSignal, processedMessages>>

\* claude_stream with data.type result or error
ClaudeStreamEnd(sid, streamType, errorMessage) ==
    /\ Receiving
    /\ streamBuffers' = RemoveItem(streamBuffers, sid)
    /\ Finish(UpdateState(Cur, ApplyStreamEnd(state, sid, streamType, errorMessage)))
    /\ lastSignal' = [lastSignal EXCEPT ![sid] = "end"]
    /\ UNCHANGED processedMessages

\* session_history that carries a whole file, of any length the relay sends
TimelineLoaded(sid, loadedMessages) ==
    /\ Receiving
    /\ Commit(OnSessionHistory(Cur, sid, loadedMessages))
    /\ UNCHANGED <<streamBuffers, lastSignal, processedMessages>>

\* The chat page renders: useMemo recomputes processMessages(sessions.messages).
Render ==
    /\ processedMessages' = RenderAll(state.messages)
    /\ UNCHANGED <<state, ws, sockets, timers, reconnectTimeout, localStorage,
                   wire, dropped, statusLog, notified, ctorThrows, streamBuffers,
                   lastSignal>>

\* The page is reloaded: a new service is constructed; localStorage survives.
\* No listener is registered while the constructor runs.
Construct(storage, throws) ==
    [Connect([state |-> INITIAL_STATE, ws |-> NoSocket,
              sockets |-> [s \in SocketIds |-> "FREE"], timers |-> {},
              reconnectTimeout |-> NoTimer, localStorage |-> storage,
              wire |-> << >>, dropped |-> << >>, statusLog |-> << >>,
              notified |-> NoneNotified], throws)
     EXCEPT !.notified = NoneNotified]

Reload ==
    /\ Commit(Construct(localStorage, ctorThrows))
    /\ streamBuffers' = NoItems
    /\ lastSignal' = [sid \in SessionIds |-> "none"]
    /\ processedMessages' = RenderAll(<< >>)

\* The state after construction, on a first visit (nothing stored yet).
Init ==
    /\ ctorThrows \in BOOLEAN
    /\ LET r == Construct(NoItems, ctorThrows)
       IN /\ state = r.state
          /\ ws = r.ws
          /\ sockets = r.sockets
          /\ timers = r.timers
          /\ reconnectTimeout = r.reconnectTimeout
          /\ localStorage = r.localStorage
          /\ wire = r.wire
          /\ dropped = r.dropped
          /\ statusLog = r.statusLog
          /\ notified = r.notified
    /\ streamBuffers = NoItems
    /\ lastSignal = [sid \in SessionIds |-> "none"]
    /\ processedMessages = RenderAll(<< >>)

\* ------------------------------------------------- inputs of the relay

\* Entries the relay reads from a session's file: two user turns with the same
\* text, an assistant turn, a tool-result acknowledgement (a user-role entry).
UserA1 == [role |-> "user", content |-> Str(TextA), uuid |-> "u1"]
UserA2 == [role |-> "user", content |-> Str(TextA), uuid |-> "u2"]
ToolResult == [role |-> "user", content |-> Blocks(<<ToolResultBlock>>), uuid |-> "u3"]
Assistant1 ==
    [role |-> "assistant",
     content |-> Blocks(<<[type |-> "text", text |-> <<"o", "k">>]>>), uuid |-> "u4"]

ServerEntries == {UserA1, UserA2, Assistant1}

\* A snapshot or a batch lists an entry of the file once.
Injective(seq) == \A i, j \in 1..Len(seq) : seq[i] = seq[j] => i = j

Batches == {seq \in SeqsOf(ServerEntries, 0, MaxBatch) : Injective(seq)}

Session(sid, lastActive) == [lychee_id |-> sid, last_active |-> lastActive]

\* ------------------------------------- specification: the chat reconciler

ChatSessions == <<Session("s1", 2), Session("s2", 1)>>

NextChat ==
    \/ \E s \in SocketIds : SocketOpen(s)
    \/ ClientConnected("/r1", "app")
    \/ SessionsList("/r1", ChatSessions, << >>)
    \/ \E sid \in SessionIds : SelectSession("/r1", sid)
    \/ \E raw \in RawInputs : SendChatMessage(raw)
    \/ \E sid \in SessionIds, entries \in Batches : SessionUpdate(sid, entries)
    \/ \E sid \in SessionIds, loaded \in Batches : SessionHistory(sid, loaded)
    \/ \E sid \in SessionIds : StreamStart(sid)
    \/ \E sid \in SessionIds : StreamEnd(sid)
    \/ Reload

SpecChat == Init /\ [][NextChat]_vars

\* ---------------------------------- specification: the connection manager

NextConn ==
    \/ \E s \in SocketIds : SocketOpen(s)
    \/ \E s \in SocketIds : SocketBeginClose(s)
    \/ \E s \in SocketIds : SocketError(s)
    \/ \E s \in SocketIds : SocketClose(s)
    \/ \E t \in TimerIds : TimerFire(t)
    \/ ClientConnected("/r1", "app")
    \/ SessionsList("/r1", ChatSessions, << >>)
    \/ \E sid \in SessionIds : SelectSession("/r1", sid)
    \/ RefreshSessions("/r1")
    \/ CreateSession("/r1")
    \/ SessionCreated("/r1", "s1")
    \/ StreamStart("s1")
    \/ ErrorEvent(TextA)

SpecConn == Init /\ [][NextConn]_vars

\* -------------------------------------- specification: stream signals

TextBlockA == [type |-> "text", text |-> TextA]

NextSignals ==
    \/ \E s \in SocketIds : SocketOpen(s)
    \/ ClientConnected("/r1", "app")
    \/ SessionsList("/r1", ChatSessions, << >>)
    \/ SelectSession("/r1", "s1")
    \/ \E sid \in SessionIds : StreamStart(sid)
    \/ \E sid \in SessionIds : StreamEnd(sid)
    \/ \E sid \in SessionIds : ClaudeStreamInit(sid)
    \/ \E sid \in SessionIds : ClaudeStreamAssistant(sid, <<TextBlockA>>)
    \/ \E sid \in SessionIds, streamType \in {"result", "error"} :
           ClaudeStreamEnd(sid, streamType, TextB)
    \/ Reload

SpecSignals == Init /\ [][NextSignals]_vars

\* ------------------------------------- specification: block assembly

TextBlockB == [type |-> "text", text |-> TextB]
Tool1 == [type |-> "tool_use", id |-> "t1", name |-> "Read"]
Tool2 == [type |-> "tool_use", id |-> "t2", name |-> "Edit"]

\* Deltas the relay forwards.
DeltaInputs ==
    {<<TextBlockA>>, <<TextBlockB, Tool1>>, <<Tool1, TextBlockA>>, <<Tool1, Tool2>>}

NextAssembly ==
    \/ \E s \in SocketIds : SocketOpen(s)
    \/ ClientConnected("/r1", "app")
    \/ SessionsList("/r1", ChatSessions, << >>)
    \/ SelectSession("/r1", "s1")
    \/ \E sid \in SessionIds : ClaudeStreamInit(sid)
    \/ \E sid \in SessionIds, blocks \in DeltaInputs : ClaudeStreamBlocks(sid, blocks)
    \/ \E sid \in SessionIds : ClaudeStreamEnd(sid, "result", NoText)

SpecAssembly == Init /\ [][NextAssembly]_vars

\* ------------------------------- specification: frames for any session

\* Snapshots and batches of this specification.
FrameBatches == {<<UserA1>>, <<Assistant1>>}

NextFrames ==
    \/ \E s \in SocketIds : SocketOpen(s)
    \/ ClientConnected("/r1", "app")
    \/ SessionsList("/r1", ChatSessions, << >>)
    \/ \E sid \in SessionIds : SelectSession("/r1", sid)
    \/ \E sid \in SessionIds, loaded \in FrameBatches : SessionHistory(sid, loaded)
    \/ \E sid \in SessionIds, entries \in FrameBatches : SessionUpdate(sid, entries)
    \/ \E sid \in SessionIds : StreamStart(sid)
    \/ \E sid \in SessionIds : StreamEnd(sid)
    \/ \E sid \in SessionIds : ClaudeStreamInit(sid)
    \/ \E sid \in SessionIds : ClaudeStreamAssistant(sid, <<TextBlockA>>)
    \/ \E sid \in SessionIds : ClaudeStreamEnd(sid, "result", NoText)

SpecFrames == Init /\ [][NextFrames]_vars

\* ------------------------------------------ specification: the directory

\* What the relay lists for each repo, and the active ids it attaches.
DirSessions(p) == IF p = "/r1" THEN <<Session("s1", 1)>> ELSE <<Session("s2", 1)>>
ActiveIdLists == {<< >>, <<"s1">>, <<"s2">>}

NextDir ==
    \/ \E s \in SocketIds : SocketOpen(s)
    \/ \E s \in SocketIds : SocketClose(s)
    \/ \E t \in TimerIds : TimerFire(t)
    \/ ClientConnected("/r1", "app")
    \/ ClientConnected("/r2", "lib")
    \/ \E p \in RepoPaths : ClientDisconnected(p)
    \/ \E p \in RepoPaths, ids \in ActiveIdLists :
           SessionsList(p, DirSessions(p), ids)
    \/ \E sid \in SessionIds : StreamStart(sid)
    \/ \E sid \in SessionIds : StreamEnd(sid)

SpecDir == Init /\ [][NextDir]_vars

\* ------------------------------------ specification: the chat page's view

MaxTimeline == 3

TextGo == <<"g", "o">>
TextSure == <<"S", "u", "r", "e">>

\* Messages of a session file and of a stream: a user turn, assistant turns
\* with text and tool blocks, a warm-up side-channel turn, a system note, a
\* user turn that mixes a tool_result block with text, and a streamed message
\* that carries its text-length snapshot.
UserGo == [role |-> "user", content |-> Str(TextGo), uuid |-> "m1"]
AssistantSureTool ==
    [role |-> "assistant",
     content |-> Blocks(<<[type |-> "text", text |-> TextSure], Tool1>>),
     uuid |-> "m2"]
AssistantTool ==
    [role |-> "assistant", content |-> Blocks(<<Tool2>>), uuid |-> "m3"]
AssistantDone ==
    [role |-> "assistant",
     content |-> Blocks(<<[type |-> "text", text |-> <<"d">>]>>), uuid |-> "m4"]
AssistantBlankTool ==
    [role |-> "assistant",
     content |-> Blocks(<<[type |-> "text", text |-> <<Space>>], Tool1, Tool2>>),
     uuid |-> "m5"]
SidechainWarmup ==
    [role |-> "assistant", content |-> Str(<<"w">>), uuid |-> "m6",
     isSidechain |-> TRUE]
SystemNote == [role |-> "system", content |-> Str(<<"n">>), uuid |-> "m7"]
UserMixed ==
    [role |-> "user",
     content |-> Blocks(<<ToolResultBlock, [type |-> "text", text |-> <<"x">>]>>),
     uuid |-> "m8"]
UserNoBlocks == [role |-> "user", content |-> Blocks(<< >>), uuid |-> "m9"]
StreamedSplit ==
    [role |-> "assistant",
     content |-> Blocks(<<[type |-> "text", text |-> <<"a", "b">>], Tool1>>),
     uuid |-> Null, textLengthAtTools |-> 1]

TimelineEntries ==
    {UserGo, AssistantSureTool, ToolResult, AssistantTool, AssistantDone,
     AssistantBlankTool, SidechainWarmup, SystemNote, UserMixed, UserNoBlocks,
     StreamedSplit}

Timelines == {seq \in SeqsOf(TimelineEntries, 0, MaxTimeline) : Injective(seq)}

\* The view is followed one load at a time: the file arrives after the page
\* has rendered the timeline that selectSession emptied.
NextSegment ==
    \/ \E s \in SocketIds : SocketOpen(s)
    \/ ClientConnected("/r1", "app")
    \/ SessionsList("/r1", ChatSessions, << >>)
    \/ SelectSession("/r1", "s1")
    \/ /\ state.messages = << >>
       /\ processedMessages = RenderAll(<< >>)
       /\ \E loaded \in Timelines : TimelineLoaded("s1", loaded)
    \/ Render

SpecSegment == Init /\ [][NextSegment]_vars

\* ------------------------------- specification: directory events, replayed

\* Session lists the relay may send for a repo: none, one session, and two
\* sessions listed oldest first.
ListedSessions ==
    {<< >>, <<Session("s2", 1)>>, <<Session("s1", 1), Session("s2", 2)>>}

NextListing ==
    \/ \E s \in SocketIds : SocketOpen(s)
    \/ \E name \in RepoNames : ClientConnected("/r1", name)
    \/ ClientConnected("/r2", "lib")
    \/ \E p \in RepoPaths, sessions \in ListedSessions, ids \in ActiveIdLists :
           SessionsList(p, sessions, ids)
    \/ \E sid \in SessionIds : SelectSession("/r1", sid)
    \/ \E sid \in SessionIds : StreamEnd(sid)

SpecListing == Init /\ [][NextListing]_vars

\* -------------------------------- specification: a repo leaves the relay

NextRemoval ==
    \/ \E s \in SocketIds : SocketOpen(s)
    \/ ClientConnected("/r1", "app")
    \/ ClientConnected("/r2", "lib")
    \/ \E p \in RepoPaths : SessionsList(p, DirSessions(p), <<"s2">>)
    \/ \E p \in RepoPaths, sid \in SessionIds : SelectSession(p, sid)
    \/ \E p \in RepoPaths : CreateSession(p)
    \/ \E sid \in SessionIds : SessionHistory(sid, <<UserA1>>)
    \/ \E p \in RepoPaths : ClientDisconnected(p)

SpecRemoval == Init /\ [][NextRemoval]_vars

\* ------------------------------------ specification: frames as they arrive

NextProtocol ==
    \/ \E s \in SocketIds : SocketOpen(s)
    \/ \E s \in SocketIds : SocketClose(s)
    \/ \E t \in TimerIds : TimerFire(t)
    \/ ClientConnected("/r1", "app")
    \/ SessionsList("/r1", ChatSessions, << >>)
    \/ \E sid \in SessionIds : SelectSession("/r1", sid)
    \/ CreateSession("/r1")
    \/ StreamEnd("s1")
    \/ \E data \in FrameTexts : Message(data)

SpecProtocol == Init /\ [][NextProtocol]_vars

\* ------------------------------------------------------ claim vocabulary

Indices(seq) == 1..Len(seq)

\* Positions of the optimistic (temp-id) user messages of a timeline.
TempUsers(msgs) == {i \in Indices(msgs) : IsTempUser(msgs[i])}

\* Positions of the temp-id user messages that carry `text`.
TempUsersWith(msgs, text) ==
    {i \in TempUsers(msgs) : msgs[i].content = Str(text)}

\* Positions of the confirmed (non-temp) user messages whose literal content
\* is `text`.
ConfirmedUsersWith(msgs, text) ==
    {i \in Indices(msgs) :
        /\ msgs[i].role = "user"
        /\ ~StartsWithTemp(msgs[i].uuid)
        /\ msgs[i].content = Str(text)}

\* The temp-id messages of a timeline, in order.
TempsOf(msgs) == SelectSeq(msgs, IsTempUser)

Selected(sid) == state.currentSessionId = sid

\* A batch holds a user-role entry.
BatchHasUser(entries) == \E i \in Indices(entries) : entries[i].role = "user"

\* sendChatMessage rejects: no selected repo, no selected session, or the
\* selected session is streaming.
MustReject(st) ==
    \/ st.activeRepoPath = Null
    \/ st.currentSessionId = Null
    \/ st.currentSessionId \in st.activeStreams

\* ------------------------------------------------------------------- C1

\* C1 (as stated): sendChatMessage("a") for the selected session S without a
\* pending write appends one temp-id user message and sets
\* PendingWriteRecord(S) = "a"; a later session_update for S that holds a user
\* message "a" removes the temp message, leaves exactly one confirmed "a" user
\* message and clears the record.  The send is read as one the guard accepts.
C1_SendConfirmCycle ==
    [][\A sid \in SessionIds :
        /\ (/\ Selected(sid) /\ ~HasItem(localStorage, sid) /\ ~MustReject(state)
            /\ \E raw \in RawInputs : Trim(raw) = TextA /\ SendChatMessage(raw))
           => /\ \E m \in {state'.messages[Len(state'.messages)]} :
                    /\ state'.messages = Append(state.messages, m)
                    /\ IsTempUser(m) /\ m.content = Str(TextA)
              /\ HasItem(localStorage', sid) /\ localStorage'[sid] = TextA
        /\ (/\ Selected(sid) /\ HasItem(localStorage, sid) /\ localStorage[sid] = TextA
            /\ TempUsersWith(state.messages, TextA) # {})
           => \A entries \in Batches :
                (ConfirmedUsersWith(entries, TextA) # {} /\ SessionUpdate(sid, entries))
                => /\ TempUsers(state'.messages) = {}
                   /\ Cardinality(ConfirmedUsersWith(state'.messages, TextA)) = 1
                   /\ ~HasItem(localStorage', sid)
      ]_vars

\* C1 (amended): as C1, but after the confirming update at least one
\* confirmed "a" remains, and exactly one when the timeline held at most one
\* confirmed "a" before and, if it held none, the batch holds exactly one.
C1_SendConfirmCycleAmended ==
    [][\A sid \in SessionIds :
        /\ (/\ Selected(sid) /\ ~HasItem(localStorage, sid) /\ ~MustReject(state)
            /\ \E raw \in RawInputs : Trim(raw) = TextA /\ SendChatMessage(raw))
           => /\ \E m \in {state'.messages[Len(state'.messages)]} :
                    /\ state'.messages = Append(state.messages, m)
                    /\ IsTempUser(m) /\ m.content = Str(TextA)
              /\ HasItem(localStorage', sid) /\ localStorage'[sid] = TextA
        /\ (/\ Selected(sid) /\ HasItem(localStorage, sid) /\ localStorage[sid] = TextA
            /\ TempUsersWith(state.messages, TextA) # {})
           => \A entries \in Batches :
             (ConfirmedUsersWith(entries, TextA) # {} /\ SessionUpdate(sid, entries))
             => LET before == Cardinality(ConfirmedUsersWith(state.messages, TextA))
                    inBatch == Cardinality(ConfirmedUsersWith(entries, TextA))
                    after == Cardinality(ConfirmedUsersWith(state'.messages, TextA))
                IN /\ TempUsers(state'.messages) = {}
                   /\ after >= 1
                   /\ (before <= 1 /\ (before = 0 => inBatch = 1)) => after = 1
                   /\ ~HasItem(localStorage', sid)
      ]_vars

\* The send of C1 has acted: the selected session holds the temp message, the
\* record and the transmitted send_message.
C1_Witness ==
    \E sid \in SessionIds :
        /\ Selected(sid)
        /\ HasItem(localStorage, sid) /\ localStorage[sid] = TextA
        /\ TempUsersWith(state.messages, TextA) # {}
        /\ \E i \in Indices(wire) :
              /\ wire[i].msg.type = "send_message"
              /\ wire[i].msg.lychee_id = sid
              /\ wire[i].msg.content = TextA

\* ------------------------------------------------------------------- C2

\* C2: in every reachable state the timeline of the selected session holds at
\* most one optimistic (temp-id) user message.
C2_AtMostOneTemp == Cardinality(TempUsers(state.messages)) <= 1

\* ------------------------------------------------------------------- C3

\* C3: over the stream-start and stream-end signals (stream_start and
\* stream_end, claude_stream init, result and error) a session id is in the
\* ActiveStreamSet iff the most recent signal for it was a start.
C3_MemberIffLastSignalStart ==
    \A sid \in SessionIds :
        sid \in state.activeStreams <=> lastSignal[sid] = "start"

\* One session's stream has ended while the other's is running.
C3_Witness ==
    /\ lastSignal["s1"] = "end"
    /\ lastSignal["s2"] = "start"
    /\ state.activeStreams = {"s2"}

\* ------------------------------------------------------------------- C4

\* Every SessionRecord of every repo has isStreaming iff its id is in the
\* ActiveStreamSet.
FlagsFollowMembership(st) ==
    \A i \in Indices(st.repos) :
        \A j \in Indices(st.repos[i].sessions) :
            st.repos[i].sessions[j].isStreaming
            <=> st.repos[i].sessions[j].lychee_id \in st.activeStreams

\* C4: after every event that changes the membership of the ActiveStreamSet,
\* every SessionRecord of every repo has isStreaming iff its id is a member.
C4_FlagsAfterMembershipChange ==
    [][state'.activeStreams # state.activeStreams => FlagsFollowMembership(state')]_vars

\* ------------------------------------------------------------------- C5

\* C5: a socket close event leaves repos, selection, messages and
\* ActiveStreamSet empty with ConnectionState closed and a reconnect timer
\* pending; when that timer fires in the closed state, ConnectionState becomes
\* connecting; and at most one reconnect timer is pending in every state.
C5_ReconnectAfterClose ==
    /\ [][\A s \in SocketIds :
            SocketClose(s)
            => /\ state'.repos = << >>
               /\ state'.activeRepoPath = Null
               /\ state'.currentSessionId = Null
               /\ state'.messages = << >>
               /\ state'.activeStreams = {}
               /\ state'.connectionStatus = "closed"
               /\ timers' = {reconnectTimeout'}
         ]_vars
    /\ [][\A t \in TimerIds :
            (state.connectionStatus = "closed" /\ TimerFire(t))
            => /\ statusLog' # << >>
               /\ statusLog'[1] = "connecting"
               /\ ~ctorThrows => state'.connectionStatus = "connecting"
         ]_vars
    /\ [](Cardinality(timers) <= 1)

\* A close has reset a store in which a stream had been announced.
C5_Witness ==
    /\ state.connectionStatus = "closed"
    /\ lastSignal["s1"] = "start"
    /\ state.activeStreams = {}
    /\ state.repos = << >>
    /\ Cardinality(timers) = 1

\* ------------------------------------------------------------------- C6

\* C6: a sendChatMessage call made with no selected repo, no selected session
\* or a streaming selected session changes neither the Store nor
\* localStorage and issues no command; and no transmitted send_message names a
\* session that is in the ActiveStreamSet.
C6_RejectedSendChangesNothing ==
    /\ [][\A raw \in RawInputs :
            (MustReject(state) /\ SendChatMessage(raw))
            => /\ state' = state
               /\ localStorage' = localStorage
               /\ wire' = << >> /\ dropped' = << >>
               /\ ws' = ws /\ sockets' = sockets
         ]_vars
    /\ [](\A i \in Indices(wire) :
            wire[i].msg.type = "send_message"
            => wire[i].msg.lychee_id \notin state.activeStreams)

\* A send can be attempted on a streaming session: it is selected, with a
\* selected repo, and in the ActiveStreamSet.
C6_Witness ==
    \E sid \in SessionIds :
        /\ Selected(sid)
        /\ state.activeRepoPath # Null
        /\ sid \in state.activeStreams
        /\ wire = << >> /\ dropped = << >>

\* ------------------------------------------------------------------- C7

\* C7: a command issued while the socket is not open is dropped: whatever is
\* transmitted went to the current socket in the open state, a callback that
\* dropped a command transmitted nothing and left a connection attempt under
\* way (or, when the socket cannot be created, a reconnect timer), and the
\* open event of a socket transmits register_browser and nothing that was
\* dropped before.
C7_DroppedWhenNotOpen ==
    /\ [](\A i \in Indices(wire) :
            /\ wire[i].sock \in SocketIds
            /\ wire[i].sock = ws
            /\ sockets[wire[i].sock] = "OPEN")
    /\ [](dropped # << >>
          => /\ wire = << >>
             /\ \/ ws \in SocketIds /\ sockets[ws] = "CONNECTING"
                \/ /\ ctorThrows
                   /\ ws = NoSocket
                   /\ state.connectionStatus = "error"
                   /\ reconnectTimeout \in timers)
    /\ [][\A s \in SocketIds :
            SocketOpen(s) => wire' = <<[sock |-> s, msg |-> RegisterBrowser]>>
         ]_vars

\* A command was dropped and a connection attempt is under way.
C7_Witness ==
    /\ dropped # << >>
    /\ wire = << >>
    /\ ws \in SocketIds
    /\ sockets[ws] = "CONNECTING"

\* ------------------------------------------------------------------- C8

\* C8: whatever session_history and session_update events arrive, repeated
\* deliveries included, no server entry (identified by its uuid) is in the
\* timeline twice.
C8_ExactlyOnce ==
    \A i, j \in Indices(state.messages) :
        (/\ i # j
         /\ state.messages[i].uuid # Null
         /\ ~StartsWithTemp(state.messages[i].uuid))
        => state.messages[i].uuid # state.messages[j].uuid

\* ------------------------------------------------------------------- C9

\* C9 (as stated): a history or update batch for the selected session removes
\* a temp-id user message exactly when the batch holds a confirmed user
\* message with the same literal content.
C9_TempRetiredExactlyOnMatch ==
    [][\A sid \in SessionIds :
        (Selected(sid) /\ TempUsers(state.messages) # {})
        => \A entries \in Batches :
             (SessionUpdate(sid, entries) \/ SessionHistory(sid, entries))
             => \A i \in TempUsers(state.messages) :
                  LET text == state.messages[i].content.str
                  IN (TempUsersWith(state'.messages, text) = {})
                     <=> (ConfirmedUsersWith(entries, text) # {})
      ]_vars

\* C9 (amended): a session_update for the selected session removes every
\* temp-id user message when the batch holds any user-role entry and none
\* otherwise; a session_history for the selected session replaces the timeline
\* and leaves one temp-id message, carrying PendingWriteRecord(S), iff that
\* record exists and no user message of the snapshot has its text.
C9_TempRetirementAmended ==
    [][\A sid \in SessionIds :
        (Selected(sid) /\ TempUsers(state.messages) # {})
        => \A entries \in Batches :
             /\ SessionUpdate(sid, entries)
                => TempsOf(state'.messages) =
                     IF BatchHasUser(entries) THEN << >> ELSE TempsOf(state.messages)
             /\ SessionHistory(sid, entries)
                => TempsOf(state'.messages) =
                     IF /\ HasItem(localStorage, sid)
                        /\ ConfirmedUsersWith(entries, localStorage[sid]) = {}
                     THEN <<[role |-> "user", content |-> Str(localStorage[sid]),
                             uuid |-> TempPendingUuid(sid)]>>
                     ELSE << >>
      ]_vars

\* A batch without a user entry has been merged behind a temp message that it
\* left in place.
C9_Witness ==
    \E i, j \in Indices(state.messages) :
        /\ i < j
        /\ IsTempUser(state.messages[i])
        /\ state.messages[j].role = "assistant"

\* ------------------------------------------------------------------ C10

\* C10: an accepted send for S writes the sent text to PendingWriteRecord(S),
\* and the record of a session is removed only by a history or update batch
\* for it that holds a confirmed user message with the record's text.
C10_RecordClearedOnlyOnMatch ==
    [][/\ \A raw \in RawInputs :
            (~MustReject(state) /\ Trim(raw) # << >> /\ SendChatMessage(raw))
            => /\ HasItem(localStorage', state.currentSessionId)
               /\ localStorage'[state.currentSessionId] = Trim(raw)
       /\ \A sid \in SessionIds :
            (HasItem(localStorage, sid) /\ ~HasItem(localStorage', sid))
            => \E entries \in Batches :
                 /\ ConfirmedUsersWith(entries, localStorage[sid]) # {}
                 /\ (SessionUpdate(sid, entries) \/ SessionHistory(sid, entries))
      ]_vars

\* ------------------------------------------------------------------ C11

\* C11: a session_history snapshot for the selected session S that arrives
\* while PendingWriteRecord(S) exists yields, when no user message of the
\* snapshot has the pending text, the snapshot followed by one temp-id user
\* message carrying that text, with the record kept; and, when the snapshot
\* holds the text, the snapshot alone, with the record cleared.
C11_HistoryReinsertsPending ==
    [][\A sid \in SessionIds :
        (Selected(sid) /\ HasItem(localStorage, sid))
        => \A loaded \in Batches :
             SessionHistory(sid, loaded)
             => IF ConfirmedUsersWith(loaded, localStorage[sid]) = {}
                THEN /\ state'.messages =
                          Append(loaded,
                                 [role |-> "user",
                                  content |-> Str(localStorage[sid]),
                                  uuid |-> TempPendingUuid(sid)])
                     /\ Cardinality(TempUsers(state'.messages)) = 1
                     /\ localStorage' = localStorage
                ELSE /\ state'.messages = loaded
                     /\ TempUsers(state'.messages) = {}
                     /\ ~HasItem(localStorage', sid)
      ]_vars

\* A non-empty snapshot without the pending text has been loaded: the
\* synthetic message follows it and the record is still there.
C11_Witness ==
    \E sid \in SessionIds :
        /\ Selected(sid)
        /\ HasItem(localStorage, sid)
        /\ Len(state.messages) = 2
        /\ ~StartsWithTemp(state.messages[1].uuid)
        /\ state.messages[2] = [role |-> "user",
                                content |-> Str(localStorage[sid]),
                                uuid |-> TempPendingUuid(sid)]

\* ------------------------------------------------------------------ C12

RECURSIVE TextOfBlocks(_)
\* The texts of the text blocks of a block list, concatenated in order.
TextOfBlocks(bs) ==
    IF bs = << >> THEN << >>
    ELSE (IF Head(bs).type = "text" THEN Head(bs).text ELSE << >>)
         \o TextOfBlocks(Tail(bs))

\* The tool invocation ids of a block list, in order.
RECURSIVE ToolIdsOf(_)
ToolIdsOf(bs) ==
    IF bs = << >> THEN << >>
    ELSE (IF Head(bs).type = "tool_use" THEN <<Head(bs).id>> ELSE << >>)
         \o ToolIdsOf(Tail(bs))

\* ids extended by the ids of `more` that are not in it yet.
RECURSIVE AddIds(_, _)
AddIds(ids, more) ==
    IF more = << >> THEN ids
    ELSE AddIds(IF \E i \in Indices(ids) : ids[i] = Head(more)
                THEN ids ELSE Append(ids, Head(more)),
                Tail(more))

C13_OtherSessionFrames ==
    [][\A sid \in SessionIds :
        state.currentSessionId # sid
        => /\ \A batch \in FrameBatches :
                (SessionHistory(sid, batch) \/ SessionUpdate(sid, batch))
                => state'.messages = state.messages
           /\ ClaudeStreamAssistant(sid, <<TextBlockA>>)
                => state'.messages = state.messages
           /\ (StreamStart(sid) \/ ClaudeStreamInit(sid))
                => /\ state'.messages = state.messages
                   /\ state'.activeStreams = state.activeStreams \cup {sid}
                   /\ FlagsFollowMembership(state')
           /\ (StreamEnd(sid) \/ ClaudeStreamEnd(sid, "result", NoText))
                => /\ state'.messages = state.messages
                   /\ state'.activeStreams = state.activeStreams \ {sid}
                   /\ FlagsFollowMembership(state')
      ]_vars

\* While s1 is selected and its timeline holds messages, the other session
\* is streaming and its record is flagged.
C13_Witness ==
    /\ Selected("s1")
    /\ state.messages # << >>
    /\ state.activeStreams = {"s2"}
    /\ \E i \in Indices(state.repos) :
          \E j \in Indices(state.repos[i].sessions) :
              /\ state.repos[i].sessions[j].lychee_id = "s2"
              /\ state.repos[i].sessions[j].isStreaming

\* ------------------------------------------------------------- claim C14

\* What a render step shows of the items it produced.
ItemHasOrigin(item) == "originalMessage" \in DOMAIN item
ItemsFrom(items, msg) ==
    {k \in 1..Len(items) : ItemHasOrigin(items[k]) /\ items[k].originalMessage = msg}

GoSureTimeline == <<UserGo, AssistantSureTool, ToolResult>>

GoSureItems(items) ==
    /\ Len(items) = 3
    /\ items[1].type = "user" /\ items[1].content = TextGo
    /\ items[2].type = "assistant-text" /\ items[2].content = TextSure
    /\ items[3].type = "worklog"
    /\ Len(items[3].worklogItems) = 1
    /\ items[3].worklogItems[1].tool = Tool1
    /\ items[3].worklogItems[1].precedingContext = [text |-> TextSure]
    /\ ItemsFrom(items, ToolResult) = {}

\* C14: rendering the timeline user "go", assistant (text "Sure", tool t1),
\* tool-result acknowledgement for t1 yields, on every variant of the page,
\* the user item "go", then assistant-text "Sure", then one worklog whose only
\* entry is t1 with preceding context "Sure", and no item of the tool result.
C14_GoSureExample ==
    [][(Render /\ state.messages = GoSureTimeline)
       => \A page \in PageVariants : GoSureItems(processedMessages'[page])]_vars

\* ------------------------------------------------------------- claim C15

\* A pure tool-result message, in the words of the claim.
PureToolResult(msg) ==
    /\ msg.role = "user"
    /\ ~IsString(msg.content)
    /\ msg.content.blocks # << >>
    /\ \A k \in 1..Len(msg.content.blocks) :
           msg.content.blocks[k].type = "tool_result"

Hidden(msg) == IsSidechain(msg) \/ PureToolResult(msg)

\* The worklog entries of all worklogs of an output that come from msg.
EntriesFrom(items, msg) ==
    {<<k, e>> \in (1..Len(items)) \X (1..MaxTimeline * 2) :
        /\ items[k].type = "worklog"
        /\ e <= Len(items[k].worklogItems)
        /\ items[k].worklogItems[e].originalMessage = msg}

FiltersAndStandalone(messages, items) ==
    \A i \in 1..Len(messages) :
        LET msg == messages[i]
        IN /\ Hidden(msg)
              => ItemsFrom(items, msg) = {} /\ EntriesFrom(items, msg) = {}
           /\ (~Hidden(msg) /\ msg.role \in {"user", "system"})
              => /\ Cardinality(ItemsFrom(items, msg)) = 1
                 /\ \A k \in ItemsFrom(items, msg) : items[k].type = msg.role
                 /\ EntriesFrom(items, msg) = {}

\* C15: on every variant of the page a render emits no item and no worklog
\* entry that comes from a side-channel message or from a pure tool-result
\* message (user role, non-empty block list, every block a tool_result), and
\* every other user or system message yields exactly one item of its own.
C15_FiltersAndStandalone ==
    [][Render => \A page \in PageVariants :
                    FiltersAndStandalone(state.messages, processedMessages'[page])]_vars

C15_Witness ==
    /\ state.messages = <<SidechainWarmup, ToolResult, UserMixed>>
    /\ \A page \in PageVariants :
           /\ Len(processedMessages[page]) = 1
           /\ processedMessages[page][1].originalMessage = UserMixed

\* ------------------------------------------------------------- claim C16

\* Positions in the input of the messages an output item comes from: its
\* originalMessage, or for a worklog the messages of its entries.
Origins(messages, item) ==
    IF item.type = "worklog"
    THEN {i \in 1..Len(messages) :
             \E e \in 1..Len(item.worklogItems) :
                 item.worklogItems[e].originalMessage = messages[i]}
    ELSE {i \in 1..Len(messages) : item.originalMessage = messages[i]}

\* Position of a worklog entry's tool block: message index, then block index.
EntryMessage(messages, entry) ==
    CHOOSE i \in 1..Len(messages) : messages[i] = entry.originalMessage
EntryBlock(entry) ==
    CHOOSE k \in 1..Len(entry.originalMessage.content.blocks) :
        entry.originalMessage.content.blocks[k] = entry.tool

OrderPreserved(messages, items) ==
    /\ \A a, b \in 1..Len(items) :
           a < b => \A x \in Origins(messages, items[a]),
                        y \in Origins(messages, items[b]) : x <= y
    /\ \A k \in 1..Len(items) :
           items[k].type = "worklog"
           => \A e, f \in 1..Len(items[k].worklogItems) :
                  e < f =>
                  LET first == items[k].worklogItems[e]
                      second == items[k].worklogItems[f]
                  IN \/ EntryMessage(messages, first) < EntryMessage(messages, second)
                     \/ /\ EntryMessage(messages, first) = EntryMessage(messages, second)
                        /\ EntryBlock(first) < EntryBlock(second)

\* C16: on every variant of the page a render keeps the input order: of two
\* output items the earlier one comes from messages that are not later in the
\* timeline than those of the later one, and the entries of a worklog are in
\* the order of their tool blocks in the timeline.
C16_OrderPreserved ==
    [][Render => \A page \in PageVariants :
                    /\ \A k \in 1..Len(processedMessages'[page]) :
                           Origins(state.messages, processedMessages'[page][k]) # {}
                    /\ OrderPreserved(state.messages, processedMessages'[page])]_vars

C16_Witness ==
    /\ state.messages = <<AssistantDone, AssistantBlankTool, AssistantSureTool>>
    /\ \A page \in PageVariants :
           /\ Len(processedMessages[page]) = 3
           /\ processedMessages[page][2].type = "worklog"
           /\ Len(processedMessages[page][2].worklogItems) = 3
           /\ processedMessages[page][3].content = TextSure

\* ------------------------------------------------------------- claim C17

\* A socket exists in the open or connecting ready state.
LiveSocket == ws # NoSocket /\ sockets[ws] \in {"OPEN", "CONNECTING"}

\* C17: connect() called while a socket exists in the open or connecting
\* state (sendMessage calls it for a command issued while the socket is still
\* connecting) creates no socket, keeps the service's socket and changes
\* neither the store nor the connection status.
C17_ConnectIdempotent ==
    [][(LiveSocket /\ sockets[ws] = "CONNECTING" /\ RefreshSessions("/r1"))
       => /\ sockets' = sockets
          /\ ws' = ws
          /\ state' = state
          /\ statusLog' = << >>
          /\ wire' = << >>]_vars

C17_Witness ==
    /\ dropped # << >>
    /\ statusLog = << >>
    /\ ws # NoSocket
    /\ sockets[ws] = "CONNECTING"
    /\ Cardinality({s \in SocketIds : sockets[s] \in {"OPEN", "CONNECTING"}}) = 1
    /\ HasRepo(state, "/r1")

\* ------------------------------------------------------------- claim C18

\* C18: a step in which a socket opens sets connectionStatus to open (the
\* listeners see the change) and transmits register_browser on that socket and
\* nothing else; every other command is transmitted on a socket that was open
\* before the step, hence after that socket's register_browser.
C18_RegisterFirst ==
    [][\A s \in SocketIds :
          /\ (sockets[s] # "OPEN" /\ sockets'[s] = "OPEN")
             => /\ state'.connectionStatus = "open"
                /\ statusLog' = <<"open">>
                /\ Len(wire') = 1
                /\ wire'[1].sock = s
                /\ wire'[1].msg.type = "register_browser"
          /\ \A i \in Indices(wire') :
                 (wire'[i].sock = s /\ wire'[i].msg.type # "register_browser")
                 => sockets[s] = "OPEN"]_vars

\* A reconnection has opened: its first transmission is register_browser.
C18_Witness ==
    /\ reconnectTimeout # NoTimer
    /\ ws \in SocketIds
    /\ sockets[ws] = "OPEN"
    /\ state.connectionStatus = "open"
    /\ statusLog = <<"open">>
    /\ Len(wire) = 1
    /\ wire[1].sock = ws
    /\ wire[1].msg.type = "register_browser"

\* ------------------------------------------------------------- claim C19

\* The store after the same sessions_list event is delivered once more.
Replayed(st, p, sessions, ids) ==
    OnSessionsList([Cur EXCEPT !.state = st], p, sessions, ids).state

\* C19: delivering a sessions_list event again right after it was delivered
\* leaves the store as the first delivery left it: the same repos, the same
\* sessions of each repo in the same order, the same ActiveStreamSet.
C19_SessionsListReplay ==
    [][\A p \in RepoPaths, sessions \in ListedSessions, ids \in ActiveIdLists :
          SessionsList(p, sessions, ids)
          => /\ Replayed(state', p, sessions, ids) = state'
             /\ \A i \in Indices(state'.repos) :
                    state'.repos[i].path = p
                    => Len(state'.repos[i].sessions) = Len(sessions)]_vars

\* The two-session list was delivered to /r1 with s1 active, newest first.
C19_Witness ==
    /\ \E i \in Indices(state.repos) :
           /\ state.repos[i].path = "/r1"
           /\ Len(state.repos[i].sessions) = 2
           /\ state.repos[i].sessions[1].lychee_id = "s2"
           /\ state.repos[i].sessions[2].isStreaming
    /\ state.activeStreams = {"s1"}
    /\ wire = << >>
    /\ statusLog = << >>

\* ------------------------------------------------------------- claim C20

\* C20: a client_connected event for a path the directory already holds
\* leaves the store as it is (no second record, the repo's name and sessions
\* kept) and transmits list_sessions for that path.
C20_KnownPathConnected ==
    [][\A p \in RepoPaths, name \in RepoNames :
          ((\E i \in Indices(state.repos) : state.repos[i].path = p)
           /\ ClientConnected(p, name))
          => /\ state' = state
             /\ Len(wire') = 1
             /\ wire'[1].sock = ws
             /\ wire'[1].msg.type = "list_sessions"
             /\ wire'[1].msg.repo_path = p
             /\ dropped' = << >>]_vars

\* list_sessions for /r1 was just sent although /r1 already lists sessions.
C20_Witness ==
    /\ Len(wire) = 1
    /\ wire[1].msg.type = "list_sessions"
    /\ wire[1].msg.repo_path = "/r1"
    /\ Cardinality({i \in Indices(state.repos) : state.repos[i].path = "/r1"}) = 1
    /\ \E i \in Indices(state.repos) :
           state.repos[i].path = "/r1" /\ state.repos[i].sessions # << >>

\* ------------------------------------------------------------- claim C21

\* The repo list without the records of path p.
ReposWithout(repos, p) == SelectSeq(repos, LAMBDA repo : repo.path # p)

\* C21: a client_disconnected event for path p removes the record of p and
\* keeps the other records; when p is the selected repo, activeRepoPath and
\* currentSessionId become null and the timeline empty, and every other field
\* is kept; when p is not the selected repo, every field but the repo list is
\* unchanged.
C21_RepoRemoved ==
    [][\A p \in RepoPaths :
          ClientDisconnected(p)
          => /\ state'.repos = ReposWithout(state.repos, p)
             /\ state.activeRepoPath = p
                => state' = [state EXCEPT !.repos = state'.repos,
                                          !.activeRepoPath = Null,
                                          !.currentSessionId = Null,
                                          !.messages = << >>]
             /\ state.activeRepoPath # p
                => state' = [state EXCEPT !.repos = state'.repos]
             /\ wire' = << >>]_vars

\* /r2 has just gone away while /r1 stays selected with its timeline.
C21_Witness ==
    /\ state.activeRepoPath = "/r1"
    /\ state.currentSessionId = "s1"
    /\ state.messages = <<UserA1>>
    /\ state.activeStreams = {"s2"}
    /\ Len(state.repos) = 1
    /\ state.repos[1].path = "/r1"
    /\ wire = << >>
    /\ statusLog = << >>

\* ------------------------------------------------------------- claim C22

\* The snapshot a listener read at its k-th call was preceded by this one.
SnapshotBefore(seen, k) == IF k = 1 THEN state ELSE seen[k - 1]

\* C22: within every callback each registered listener is called once per
\* committed store transition, in the order of the transitions, and reads the
\* state of that transition: a changed store has been notified, the last
\* snapshot read is the store the callback leaves, every snapshot differs from
\* the one before it, all listeners read the same sequence, and a reconnect
\* attempt that fails at once is read as connecting first and error second.
C22_NotifiedInOrder ==
    [][\A l \in Listeners :
          /\ state' # state => notified'[l] # << >>
          /\ notified'[l] # << >> => notified'[l][Len(notified'[l])] = state'
          /\ \A k \in Indices(notified'[l]) :
                 notified'[l][k] # SnapshotBefore(notified'[l], k)
          /\ \A m \in Listeners : notified'[m] = notified'[l]
          /\ ((\E t \in TimerIds : TimerFire(t)) /\ ctorThrows)
             => /\ Len(notified'[l]) = 2
                /\ notified'[l][1].connectionStatus = "connecting"
                /\ notified'[l][2].connectionStatus = "error"]_vars

\* A failed reconnect attempt was observed as two snapshots, in order.
C22_Witness ==
    \A l \in Listeners :
        /\ Len(notified[l]) = 2
        /\ notified[l][1].connectionStatus = "connecting"
        /\ notified[l][2] = state
        /\ state.connectionStatus = "error"

\* ------------------------------------------------------------- claim C23

\* Frames that do not parse, parse to no object, or carry no known type.
DroppedFrames ==
    {BrokenFrame, NullFrame, NumberFrame, ClientCountFrame, FutureFrame}

\* C23: a frame that fails JSON parsing or whose type is not a known variant
\* is dropped: the store, the socket, the timers and localStorage are as
\* before, no listener is called, no command is sent or dropped, and the
\* socket goes on delivering: a stream_start frame that arrives on the open
\* socket, after a dropped frame as at any time, is applied.
C23_BadFramesDropped ==
    [][/\ \A data \in DroppedFrames :
            Message(data)
            => /\ state' = state
               /\ <<ws', sockets', timers', reconnectTimeout', localStorage'>>
                  = <<ws, sockets, timers, reconnectTimeout, localStorage>>
               /\ wire' = << >> /\ dropped' = << >>
               /\ notified' = NoneNotified
               /\ ws' # NoSocket /\ sockets'[ws'] = "OPEN"
       /\ (ws # NoSocket /\ sockets[ws] = "OPEN" /\ Message(StreamStartFrame))
          => "s1" \in state'.activeStreams]_vars

\* A frame was dropped on the open socket while a stream and a session
\* creation were under way: the callback changed and notified nothing.
C23_Witness ==
    /\ "s1" \in state.activeStreams
    /\ lastSignal["s1"] = "start"
    /\ state.isCreatingSession
    /\ ws # NoSocket /\ sockets[ws] = "OPEN"
    /\ wire = << >> /\ dropped = << >>
    /\ notified = NoneNotified

\* ------------------------------------------------------------- claim C24

\* C24: a relay error event clears the session-creation flags, and leaves the
\* timeline as it is unless the session it relates to is the selected one; in
\* particular it appends nothing while no session is selected.
C24_ErrorOnlyForSelected ==
    [][ErrorEvent(TextA)
       => /\ ~state'.isCreatingSession
          /\ state'.creatingSessionForRepo = Null
          /\ state.currentSessionId = Null => state'.messages = state.messages]_vars

\* ------------------------------------------------------------- claim C25

\* C25: the close event of a socket that is no longer the service's socket
\* (a command issued while it was closing made connect() create a new one)
\* leaves the new socket, the service's reference to it and the store alone.
C25_LateCloseIsLocal ==
    [][\A s \in SocketIds :
          (ws # NoSocket /\ s # ws /\ SocketClose(s))
          => /\ ws' = ws
             /\ sockets'[ws] = sockets[ws]
             /\ state' = state]_vars

\* ------------------------------------------------------------- claim C26

\* Streams that are cut by a connection drop and go on after the reconnect.
NextDrop ==
    \/ \E s \in SocketIds : SocketOpen(s)
    \/ \E s \in SocketIds : SocketClose(s)
    \/ \E t \in TimerIds : TimerFire(t)
    \/ ClientConnected("/r1", "app")
    \/ SessionsList("/r1", ChatSessions, << >>)
    \/ SelectSession("/r1", "s1")
    \/ \E sid \in SessionIds : ClaudeStreamInit(sid)
    \/ \E sid \in SessionIds : ClaudeStreamAssistant(sid, <<TextBlockA>>)
    \/ \E sid \in SessionIds : ClaudeStreamEnd(sid, "result", NoText)

SpecDrop == Init /\ [][NextDrop]_vars

\* C26: after a connection drop no stream is active and no session's
\* accumulation buffer holds text that was received before the drop.
C26_DropResetsStreams ==
    [][(\E s \in SocketIds : SocketClose(s))
       => /\ state'.activeStreams = {}
          /\ \A sid \in SessionIds : BufferOrEmpty(streamBuffers', sid) = << >>]_vars

\* ------------------------------------------------------------- claim C27

\* Inbound events of every kind the service handles, on one open socket.
NextStreams ==
    \/ \E s \in SocketIds : SocketOpen(s)
    \/ ClientConnected("/r1", "app")
    \/ ClientDisconnected("/r1")
    \/ \E ids \in ActiveIdLists : SessionsList("/r1", ChatSessions, ids)
    \/ \E sid \in SessionIds : SelectSession("/r1", sid)
    \/ SessionCreated("/r1", "s1")
    \/ \E sid \in SessionIds : SessionHistory(sid, <<UserA1>>)
    \/ \E sid \in SessionIds : SessionUpdate(sid, <<Assistant1>>)
    \/ \E sid \in SessionIds : StreamStart(sid)
    \/ \E sid \in SessionIds : StreamEnd(sid)
    \/ ErrorEvent(TextA)

SpecStreams == Init /\ [][NextStreams]_vars

\* C27: a sessions_list event leaves the ActiveStreamSet as the union of what
\* it was and the event's active ids; an inbound event that takes an id out of
\* the set is the stream_end of that id.
C27_ListNeverRemoves ==
    [][/\ \A ids \in ActiveIdLists :
            SessionsList("/r1", ChatSessions, ids)
            => state'.activeStreams = state.activeStreams \cup SeqSet(ids)
       /\ \A sid \in state.activeStreams \ state'.activeStreams :
            StreamEnd(sid)]_vars

\* A stream the relay announced by stream_start is still in the set after a
\* sessions_list event added another one, which no stream_start announced.
C27_Witness ==
    /\ state.activeStreams = {"s1", "s2"}
    /\ lastSignal["s1"] = "start"
    /\ lastSignal["s2"] = "none"
    /\ HasSession(state, "/r1", "s1")

\* ------------------------------------------------------------- claim C28

RECURSIVE ExchangeStart(_, _)
\* The index of the first message of the exchange that message i belongs to.
ExchangeStart(clean, i) ==
    IF i > 1 /\ clean[i - 1].role = "assistant"
    THEN ExchangeStart(clean, i - 1) ELSE i

\* The exchange of message i spans several assistant messages.
SpansSeveral(clean, i) ==
    /\ clean[i].role = "assistant"
    /\ ExchangeEnd(clean, ExchangeStart(clean, i)) - ExchangeStart(clean, i) >= 2

\* The context the claim gives the tools of message i: the text of the most
\* recent message after the first that carried text, else the first's text.
ExpectedContext(clean, i) ==
    LET first == ExchangeStart(clean, i)
        later == {j \in (first + 1)..i :
                     Trim(GetTextFromContent(clean[j].content)) # << >>}
    IN IF later = {}
       THEN ContextOf(GetTextFromContent(clean[first].content))
       ELSE LET j == CHOOSE x \in later : \A y \in later : y <= x
            IN ContextOf(GetTextFromContent(clean[j].content))

\* The worklog entries of an output that show the tool block of msg.
EntriesOfTool(items, msg, tool) ==
    {pos \in EntriesFrom(items, msg) :
        items[pos[1]].worklogItems[pos[2]].tool = tool}

MultiMessageWorklog(messages, items) ==
    LET clean == CleanMessages(messages)
    IN \A i \in 1..Len(clean) :
           SpansSeveral(clean, i)
           => LET msgTools == GetToolsFromContent(clean[i].content)
              IN \A b \in 1..Len(msgTools) :
                     /\ Cardinality(EntriesOfTool(items, clean[i], msgTools[b])) = 1
                     /\ \A pos \in EntriesOfTool(items, clean[i], msgTools[b]) :
                            items[pos[1]].worklogItems[pos[2]].precedingContext
                                = ExpectedContext(clean, i)

\* C28: on every variant of the page, in an exchange of several assistant
\* messages every tool block of every message of the exchange is shown by
\* exactly one worklog entry, whose preceding context is the text of the most
\* recent message after the first that carried text, or the first's text.
C28_EveryToolOnce ==
    [][Render => \A page \in PageVariants :
                    MultiMessageWorklog(state.messages, processedMessages'[page])]_vars

\* ------------------------------------------------------------- claim C29

\* A message the relay read from the session's file carries the uuid of its
\* entry; a message the assistant branch makes for a stream carries none.
FromFile(msg) == msg.uuid # Null

\* C29: a delta of a stream in progress leaves every assistant message that
\* came from the session's file (loaded before the stream started, or when the
\* user selected the session in mid-stream) as it was.
C29_DeltaKeepsLoaded ==
    [][\A sid \in SessionIds :
          (lastSignal[sid] = "start" /\ ClaudeStreamAssistant(sid, <<TextBlockA>>))
          => \A i \in 1..Len(state.messages) :
                 (state.messages[i].role = "assistant" /\ FromFile(state.messages[i]))
                 => /\ i <= Len(state'.messages)
                    /\ state'.messages[i] = state.messages[i]]_vars

\* ------------------------------------------------------------- claim C30

\* The composer is used while the socket opens, fails, closes and reconnects.
NextSend ==
    \/ \E s \in SocketIds : SocketOpen(s)
    \/ \E s \in SocketIds : SocketBeginClose(s)
    \/ \E s \in SocketIds : SocketError(s)
    \/ \E s \in SocketIds : SocketClose(s)
    \/ \E t \in TimerIds : TimerFire(t)
    \/ ClientConnected("/r1", "app")
    \/ SessionsList("/r1", ChatSessions, << >>)
    \/ SelectSession("/r1", "s1")
    \/ \E raw \in RawInputs : SendChatMessage(raw)

SpecSend == Init /\ [][NextSend]_vars

\* The call handed a send_message command with this text to the socket.
Transmitted(log, text) ==
    \E k \in 1..Len(log) :
        log[k].msg.type = "send_message" /\ log[k].msg.content = text

\* C30: a call of sendChatMessage that appends the optimistic message and
\* writes the pending record also transmits a send_message command with the
\* trimmed text on the socket.
C30_OptimisticIsSent ==
    [][\A raw \in RawInputs :
          (SendChatMessage(raw) /\ Len(state'.messages) > Len(state.messages))
          => /\ HasItem(localStorage', state.currentSessionId)
             /\ Transmitted(wire', Trim(raw))]_vars

\* ------------------------------------------------------------- claim C31

\* A confirmed user message of the timeline has the content of the entry.
ConfirmedTwin(messages, entry) ==
    \E i \in 1..Len(messages) :
        /\ messages[i].role = "user"
        /\ ~StartsWithTemp(messages[i].uuid)
        /\ messages[i].content = entry.content

\* The entries of a batch the claim lets through, in their incoming order.
LetThrough(messages, newEntries) ==
    SelectSeq(newEntries,
              LAMBDA entry : ~(entry.role = "user" /\ ConfirmedTwin(messages, entry)))

\* C31: a session_update for the selected session leaves out every incoming
\* user entry whose content equals that of a confirmed user message of the
\* timeline and appends all other entries of the batch in their incoming
\* order, after the messages the timeline keeps.
C31_SecondaryDefense ==
    [][\A sid \in SessionIds, entries \in Batches :
          (state.currentSessionId = sid /\ SessionUpdate(sid, entries))
          => state'.messages
                 = WithoutTempDupes(state.messages, HasUserMessage(entries))
                   \o LetThrough(state.messages, entries)]_vars

\* A timeline whose confirmed user message "a" met a batch that held the same
\* text under another uuid and an assistant entry: only the latter was added.
C31_Witness ==
    /\ state.currentSessionId = "s1"
    /\ state.messages = <<UserA1, Assistant1>>

\* ------------------------------------------------------------- claim C32

\* The text each session's stream carries: "a" for s1, "b" for s2.
StreamBlock(sid) == IF sid = "s1" THEN TextBlockA ELSE TextBlockB

\* Two sessions stream at once while the user moves between them.
NextMachine ==
    \/ \E s \in SocketIds : SocketOpen(s)
    \/ ClientConnected("/r1", "app")
    \/ SessionsList("/r1", ChatSessions, << >>)
    \/ \E sid \in SessionIds : SelectSession("/r1", sid)
    \/ \E sid \in SessionIds : ClaudeStreamInit(sid)
    \/ \E sid \in SessionIds : ClaudeStreamAssistant(sid, <<StreamBlock(sid)>>)
    \/ \E sid \in SessionIds, streamType \in {"result", "error"} :
           ClaudeStreamEnd(sid, streamType, NoText)

SpecMachine == Init /\ [][NextMachine]_vars

\* The buffers of the sessions other than sid are as they were.
OtherBuffersKept(sid) ==
    \A other \in SessionIds \ {sid} :
        /\ HasItem(streamBuffers', other) = HasItem(streamBuffers, other)
        /\ BufferOrEmpty(streamBuffers', other) = BufferOrEmpty(streamBuffers, other)

\* No character of the text of another session's stream.
OwnTextOnly(sid, text) ==
    \A k \in 1..Len(text) : text[k] \in SeqSet(StreamBlock(sid).text)

\* The buffer of every session, and every assistant message of the timeline
\* of the selected session, holds text of that session's stream only.
Isolated ==
    /\ \A sid \in SessionIds : OwnTextOnly(sid, BufferOrEmpty(streamBuffers, sid))
    /\ \A sid \in SessionIds :
           state.currentSessionId = sid
           => \A i \in 1..Len(state.messages) :
                  state.messages[i].role = "assistant"
                  => OwnTextOnly(sid, StringOrEmpty(state.messages[i]))

\* C32: a start signal empties the buffer of its session and adds the id to
\* the ActiveStreamSet; a result or error signal discards the buffer and
\* removes the id; neither touches the buffer of another session; and no
\* buffer or assistant message ever holds text of another session's stream.
C32_StreamMachine ==
    [][/\ \A sid \in SessionIds :
            ClaudeStreamInit(sid)
            => /\ sid \in state'.activeStreams
               /\ HasItem(streamBuffers', sid)
               /\ streamBuffers'[sid] = << >>
               /\ OtherBuffersKept(sid)
       /\ \A sid \in SessionIds, streamType \in {"result", "error"} :
            ClaudeStreamEnd(sid, streamType, NoText)
            => /\ sid \notin state'.activeStreams
               /\ ~HasItem(streamBuffers', sid)
               /\ OtherBuffersKept(sid)
       /\ Isolated']_vars

\* Both sessions stream, s2 is selected and shows its own text while the
\* buffer of s1 holds the text of s1.
C32_Witness ==
    /\ state.activeStreams = {"s1", "s2"}
    /\ state.currentSessionId = "s2"
    /\ BufferOrEmpty(streamBuffers, "s1") = TextA
    /\ BufferOrEmpty(streamBuffers, "s2") = TextB
    /\ Len(state.messages) = 1
    /\ state.messages[1].content = Str(TextB)

\* ------------------------------------------------------------- claim C33

\* What an error signal may carry as data.message: nothing, or a text.
ErrorTexts == {NoText, TextB}

NextStreamError ==
    \/ \E s \in SocketIds : SocketOpen(s)
    \/ ClientConnected("/r1", "app")
    \/ SessionsList("/r1", ChatSessions, << >>)
    \/ \E sid \in SessionIds : SelectSession("/r1", sid)
    \/ \E sid \in SessionIds : ClaudeStreamInit(sid)
    \/ \E sid \in SessionIds : ClaudeStreamAssistant(sid, <<TextBlockA>>)
    \/ \E sid \in SessionIds, streamType \in {"result", "error"},
          errorMessage \in ErrorTexts :
           ClaudeStreamEnd(sid, streamType, errorMessage)

SpecStreamError == Init /\ [][NextStreamError]_vars

\* The timeline grew by one system message whose content ends with the text.
ErrorAppended(text) ==
    /\ Len(state'.messages) = Len(state.messages) + 1
    /\ SubSeq(state'.messages, 1, Len(state.messages)) = state.messages
    /\ LET m == state'.messages[Len(state'.messages)]
       IN /\ m.role = "system"
          /\ IsString(m.content)
          /\ Len(m.content.str) >= Len(text)
          /\ SubSeq(m.content.str, Len(m.content.str) - Len(text) + 1,
                    Len(m.content.str)) = text

\* C33 as stated: an error signal for S appends a system message with the
\* error text iff S is the selected session, leaves the timeline unchanged
\* otherwise, and removes S from the ActiveStreamSet in both cases.
C33_ErrorIffSelected ==
    [][\A sid \in SessionIds, errorMessage \in ErrorTexts :
          ClaudeStreamEnd(sid, "error", errorMessage)
          => /\ sid \notin state'.activeStreams
             /\ IF state.currentSessionId = sid
                THEN ErrorAppended(errorMessage)
                ELSE state'.messages = state.messages]_vars

\* C33 amended: an error signal for S appends a system message with the error
\* text iff S is the selected session and the signal carries a non-empty
\* text, leaves the timeline unchanged otherwise, and removes S from the
\* ActiveStreamSet in every case.
C33_ErrorIffSelectedWithText ==
    [][\A sid \in SessionIds, errorMessage \in ErrorTexts :
          ClaudeStreamEnd(sid, "error", errorMessage)
          => /\ sid \notin state'.activeStreams
             /\ IF state.currentSessionId = sid /\ errorMessage # NoText
                THEN ErrorAppended(errorMessage)
                ELSE state'.messages = state.messages]_vars

\* The selected session's stream ended with an error that is in its timeline,
\* while the other session still streams.
C33_Witness ==
    /\ state.currentSessionId = "s1"
    /\ lastSignal["s1"] = "end"
    /\ state.activeStreams = {"s2"}
    /\ Len(state.messages) = 1
    /\ state.messages[1].role = "system"
    /\ state.messages[1].content = Str(<<"E", ":">> \o TextB)

\* ------------------------------------------------------------- claim C34

\* The output items that show msg: its own items and the worklogs with an
\* entry of it.
ItemsOf(items, msg) ==
    SelectSeq(items,
              LAMBDA item :
                  IF item.type = "worklog"
                  THEN \E e \in 1..Len(item.worklogItems) :
                           item.worklogItems[e].originalMessage = msg
                  ELSE item.originalMessage = msg)

\* What an item shows, without its id and origin.
Shown(item) ==
    IF item.type = "worklog"
    THEN [type |-> "worklog",
          entries |-> [e \in 1..Len(item.worklogItems) |->
                          [tool |-> item.worklogItems[e].tool,
                           precedingContext |-> item.worklogItems[e].precedingContext]]]
    ELSE [type |-> item.type, content |-> item.content]

\* The items the claim expects of a single message with tool blocks.
SplitExpected(msg) ==
    LET allText == GetTextFromContent(msg.content)
        msgTools == GetToolsFromContent(msg.content)
        splitPoint == TextLengthAtTools(msg)
        before == IF splitPoint > 0 THEN SliceTo(allText, splitPoint) ELSE allText
        after == IF splitPoint > 0 THEN SliceFrom(allText, splitPoint) ELSE << >>
    IN (IF Trim(before) # << >>
        THEN <<[type |-> "assistant-text", content |-> before]>> ELSE << >>)
       \o <<[type |-> "worklog",
             entries |-> [k \in 1..Len(msgTools) |->
                             [tool |-> msgTools[k],
                              precedingContext |-> ContextOf(before)]]]>>
       \o (IF Trim(after) # << >> /\ after # before
           THEN <<[type |-> "assistant-text", content |-> after]>> ELSE << >>)

SingleMessageSplit(messages, items) ==
    LET clean == CleanMessages(messages)
    IN \A i \in 1..Len(clean) :
           (/\ clean[i].role = "assistant"
            /\ ~SpansSeveral(clean, i)
            /\ GetToolsFromContent(clean[i].content) # << >>)
           => LET shown == ItemsOf(items, clean[i])
              IN [k \in 1..Len(shown) |-> Shown(shown[k])] = SplitExpected(clean[i])

NextRecords ==
    \/ \E s \in SocketIds : SocketOpen(s)
    \/ \E s \in SocketIds : SocketClose(s)
    \/ \E t \in TimerIds : TimerFire(t)
    \/ ClientConnected("/r1", "app")
    \/ ClientConnected("/r2", "lib")
    \/ \E p \in RepoPaths : ClientDisconnected(p)
    \/ \E p \in RepoPaths, sessions \in ListedSessions : SessionsList(p, sessions, << >>)
    \/ \E sid \in SessionIds : SelectSession("/r1", sid)
    \/ SessionCreated("/r1", "s2")
    \/ SessionHistory("s1", <<UserA1>>)
    \/ \E sid \in SessionIds : StreamStart(sid)
    \/ \E sid \in SessionIds : StreamEnd(sid)
    \/ ErrorEvent(TextA)

SpecRecords == Init /\ [][NextRecords]_vars

\* The step takes the record of session sid out of the list of repo p.
RecordRemoved(p, sid) == HasSession(state, p, sid) /\ ~HasSession(state', p, sid)

\* The step removes the RepoRecord of p: its client left or the store was reset.
RepoRemoval(p) ==
    /\ ~HasRepo(state', p)
    /\ ClientDisconnected(p) \/ \E s \in SocketIds : SocketClose(s)

Lists(sessions, sid) ==
    \E j \in 1..Len(sessions) : sessions[j].lychee_id = sid

\* C35 as stated: a session record leaves a repo's list only when the repo's
\* record is removed, by client_disconnected or by the connection reset.
C35_RemovedWithRepoOnly ==
    [][\A p \in RepoPaths, sid \in SessionIds :
          RecordRemoved(p, sid) => RepoRemoval(p)]_vars

\* C35 amended: a session record leaves a repo's list only when the repo's
\* record is removed, by client_disconnected or by the connection reset, or
\* when a sessions_list event for its repo does not list it.
C35_RemovedWithRepoOrByList ==
    [][\A p \in RepoPaths, sid \in SessionIds :
          RecordRemoved(p, sid)
          => \/ RepoRemoval(p)
             \/ \E sessions \in ListedSessions :
                    ~Lists(sessions, sid) /\ SessionsList(p, sessions, << >>)]_vars

\* The selected session s1 was listed when the user selected it; its repo is
\* still in the directory, with a list that no longer holds s1.
C35_Witness ==
    /\ state.activeRepoPath = "/r1"
    /\ state.currentSessionId = "s1"
    /\ HasRepo(state, "/r1")
    /\ HasSession(state, "/r1", "s2")
    /\ ~HasSession(state, "/r1", "s1")

\* ------------------------------------------------------------- claim C36

\* Sessions are created while clients come and go and the socket fails. The
\* relay answers a creation the browser asked for: session_created arrives
\* for the repo of a creation under way.
NextCreation ==
    \/ \E s \in SocketIds : SocketOpen(s)
    \/ \E s \in SocketIds : SocketError(s)
    \/ \E s \in SocketIds : SocketClose(s)
    \/ \E t \in TimerIds : TimerFire(t)
    \/ \E p \in RepoPaths : ClientConnected(p, IF p = "/r1" THEN "app" ELSE "lib")
    \/ \E p \in RepoPaths : ClientDisconnected(p)
    \/ \E p \in RepoPaths : SessionsList(p, DirSessions(p), << >>)
    \/ \E p \in RepoPaths, sid \in SessionIds : SelectSession(p, sid)
    \/ \E p \in RepoPaths : CreateSession(p)
    \/ \E p \in RepoPaths :
           state.creatingSessionForRepo = p /\ SessionCreated(p, "s2")
    \/ ErrorEvent(TextA)

SpecCreation == Init /\ [][NextCreation]_vars

\* C36: activeRepoPath is null or the path of a RepoRecord of the directory.
C36_ActiveRepoKnown ==
    state.activeRepoPath = Null \/ HasRepo(state, state.activeRepoPath)

\* ------------------------------------------------------------- claim C40

\* The call handed a create_session command for repo p to the socket.
CreationTransmitted(log, p) ==
    \E k \in 1..Len(log) :
        log[k].msg.type = "create_session" /\ log[k].msg.repo_path = p

\* C40: a call that sets the creation flag names the repo and transmits the
\* create_session command for it; the flag is cleared by the answer
\* (session_created or error), and is never set by a call whose command was
\* dropped.
C40_FlagMeansCommandSent ==
    [][/\ state'.isCreatingSession => state'.creatingSessionForRepo # Null
       /\ \A p \in RepoPaths :
            (CreateSession(p) /\ state'.isCreatingSession)
            => /\ state'.creatingSessionForRepo = p
               /\ CreationTransmitted(wire', p)]_vars

\* ------------------------------------------------------------- claim C37

\* Clients register under either name, leave and come back, in any order.
NextRepos ==
    \/ \E s \in SocketIds : SocketOpen(s)
    \/ \E s \in SocketIds : SocketClose(s)
    \/ \E t \in TimerIds : TimerFire(t)
    \/ \E p \in RepoPaths, name \in RepoNames : ClientConnected(p, name)
    \/ \E p \in RepoPaths : ClientDisconnected(p)
    \/ \E p \in RepoPaths, ids \in ActiveIdLists : SessionsList(p, DirSessions(p), ids)

SpecRepos == Init /\ [][NextRepos]_vars

\* C37: the repo list holds at most one record per path and is in ascending
\* order of name.
C37_UniqueAndSorted ==
    \A i, j \in 1..Len(state.repos) :
        i < j => /\ state.repos[i].path # state.repos[j].path
                 /\ NameCompare(state.repos[i], state.repos[j]) <= 0

\* Two repos, listed with their sessions; the one named "app" comes first
\* although its path sorts last.
C37_Witness ==
    /\ Len(state.repos) = 2
    /\ state.repos[1].name = "app" /\ state.repos[1].path = "/r2"
    /\ state.repos[2].name = "lib" /\ state.repos[2].path = "/r1"
    /\ \A i \in 1..2 : state.repos[i].sessions # << >>

\* ------------------------------------------------------------- claim C38

\* Lists the relay may send: empty, out of order, and with equal last_active.
ListedTies ==
    {<< >>,
     <<Session("s1", 1), Session("s2", 2)>>,
     <<Session("s2", 1), Session("s1", 1)>>,
     <<Session("s1", 1), Session("s2", 1)>>}

NextOrdering ==
    \/ \E s \in SocketIds : SocketOpen(s)
    \/ ClientConnected("/r1", "app")
    \/ ClientConnected("/r2", "lib")
    \/ \E p \in RepoPaths, sessions \in ListedTies, ids \in ActiveIdLists :
           SessionsList(p, sessions, ids)
    \/ \E sid \in SessionIds : StreamEnd(sid)

SpecOrdering == Init /\ [][NextOrdering]_vars

\* The position of the record of session sid in a list.
PositionOf(list, sid) == CHOOSE j \in 1..Len(list) : list[j].lychee_id = sid

\* The record list shows exactly the sessions of the event, each once, newest
\* first, and sessions of equal last_active in the order of the event.
ListedInOrder(records, sessions) ==
    /\ Len(records) = Len(sessions)
    /\ \A k \in 1..Len(sessions) :
           \E j \in 1..Len(records) :
               /\ records[j].lychee_id = sessions[k].lychee_id
               /\ records[j].last_active = sessions[k].last_active
    /\ \A i, j \in 1..Len(records) :
           i < j
           => \/ records[i].last_active > records[j].last_active
              \/ /\ records[i].last_active = records[j].last_active
                 /\ PositionOf(sessions, records[i].lychee_id)
                        < PositionOf(sessions, records[j].lychee_id)

\* C38: after a sessions_list event for a known repo the repo's session list
\* is exactly the event's sessions in descending order of last_active, equal
\* ones in arrival order, and the session lists of the other repos are as
\* they were.
C38_ListReplacedAndSorted ==
    [][\A p \in RepoPaths, sessions \in ListedTies, ids \in ActiveIdLists :
          (HasRepo(state, p) /\ SessionsList(p, sessions, ids))
          => /\ Len(state'.repos) = Len(state.repos)
             /\ \A i \in 1..Len(state.repos) :
                    IF state.repos[i].path = p
                    THEN /\ state'.repos[i].path = p
                         /\ ListedInOrder(state'.repos[i].sessions, sessions)
                    ELSE state'.repos[i] = state.repos[i]]_vars

\* /r1 shows two sessions of equal last_active in the order s2, s1 of the
\* event, next to /r2 whose list came newest first from an event sent oldest
\* first.
C38_Witness ==
    /\ Len(state.repos) = 2
    /\ Len(state.repos[1].sessions) = 2
    /\ state.repos[1].sessions[1].lychee_id = "s2"
    /\ state.repos[1].sessions[1].last_active = 1
    /\ state.repos[1].sessions[2].last_active = 1
    /\ Len(state.repos[2].sessions) = 2
    /\ state.repos[2].sessions[1].last_active = 2

\* ------------------------------------------------------------- claim C39

\* Every user action and the inbound events, over the whole life of sockets.
NextStatus ==
    \/ \E s \in SocketIds : SocketOpen(s)
    \/ \E s \in SocketIds : SocketBeginClose(s)
    \/ \E s \in SocketIds : SocketError(s)
    \/ \E s \in SocketIds : SocketClose(s)
    \/ \E t \in TimerIds : TimerFire(t)
    \/ ClientConnected("/r1", "app")
    \/ SessionsList("/r1", ChatSessions, << >>)
    \/ state.creatingSessionForRepo = "/r1" /\ SessionCreated("/r1", "s2")
    \/ SelectSession("/r1", "s1")
    \/ CreateSession("/r1")
    \/ RefreshSessions("/r1")
    \/ SendChatMessage(TextB)
    \/ \E model \in OfferedModels : SetModel(model)

SpecStatus == Init /\ [][NextStatus]_vars

StatusChanges == state'.connectionStatus # state.connectionStatus

\* A callback of a socket's life (open, error, close) or the reconnect timer.
LifecycleStep ==
    \/ \E s \in SocketIds : SocketOpen(s) \/ SocketError(s) \/ SocketClose(s)
    \/ \E t \in TimerIds : TimerFire(t)

\* A user action that issues a command.
CommandStep ==
    \/ SelectSession("/r1", "s1")
    \/ CreateSession("/r1")
    \/ RefreshSessions("/r1")
    \/ SendChatMessage(TextB)

\* C39 as stated: the connection status changes only in a socket lifecycle
\* callback or when the reconnect timer fires.
C39_StatusByLifecycleOnly ==
    [][StatusChanges => LifecycleStep]_vars

\* C39 amended: the connection status changes only in a socket lifecycle
\* callback, when the reconnect timer fires, or in a user action whose command
\* finds the socket not open; no inbound message and no setModel changes it.
C39_StatusByLifecycleOrDroppedCommand ==
    [][StatusChanges => \/ LifecycleStep
                        \/ ~SocketOpenNow(Cur) /\ CommandStep]_vars

\* A refresh found the socket not open after an error: its command was
\* dropped and the status went back to connecting, with the store kept.
C39_Witness ==
    /\ state.connectionStatus = "connecting"
    /\ HasRepo(state, "/r1")
    /\ Len(dropped) = 1
    /\ dropped[1].type = "list_sessions"
    /\ statusLog = <<"connecting">>

============================================================================
